---------------------------- MODULE Spec2Model ----------------------------
(***************************************************************************)
(* Model of the nw-watch collection engine:                                *)
(*   collector/main.py  DeviceCollector (per-device session, execute),     *)
(*                      Collector (dispatch loop, snapshot publisher)      *)
(*   shared/db.py       Database (runs / ping_samples store, retention)    *)
(***************************************************************************)
EXTENDS Naturals, Integers, Sequences, FiniteSets, TLC

(***************************************************************************)
(* Bounds of the model                                                     *)
(***************************************************************************)
MaxTime == 2
MaxCalls == 2
MaxReconnect == 3
history_size == 2
\* the size of the worker pool: ThreadPoolExecutor(max_workers=20) at
\* main.py:336, scaled to the two commands of the model
max_workers == 2
\* calls of Collector.stop that the model follows
MaxStops == 2

(***************************************************************************)
(* Program constants                                                       *)
(***************************************************************************)
reconnect_backoff_base == 1
interval_seconds == 2
ping_interval_seconds == 1
PublishAttempts == 5

Devices == {"d1", "d2"}
Commands == {"c1", "c2"}
Units == Devices \X Commands
ErrKinds == {"timeout", "auth"}
None == "None"
\* the holder of a free lock; the error of a unit that has not failed
NoUnit == <<None, None>>
NoError == <<None, None>>

DeviceOrder == <<"d1", "d2">>
CommandOrder == <<"c1", "c2">>

VARIABLES
    now,                  \* wall clock, whole seconds (time.time())
    persistent,           \* DeviceCollector.persistent_connections_enabled
    max_reconnect_attempts, \* DeviceCollector.max_reconnect_attempts
    output_exclusions,    \* some output filter is configured (get_command_output_exclusions)
    _connection,          \* per device: stored handle number, 0 = None
    _connection_lock,     \* per device: unit holding the lock, or NoUnit
    handles,              \* per device: handle numbers currently open
    connects,             \* per device: number of connections opened so far
    probe_failed,         \* per device: some liveness probe has failed so far
    upc,                  \* per unit: position of the worker in execute_command
    loc,                  \* per unit: locals of execute_command
    calls,                \* number of execute_command calls submitted so far
    devices_tbl,          \* table devices(id, name UNIQUE)
    commands_tbl,         \* table commands(id, command_text UNIQUE)
    runs,                 \* table runs
    run_seq,              \* AUTOINCREMENT counter of runs.id
    appended,             \* per unit: ts_epoch of every run row inserted, in order
    ping_samples,         \* table ping_samples: number of rows per device
    command_next_run,     \* Collector.command_next_run
    cl,                   \* command loop: position and locals
    pl,                   \* ping loop: position and locals
    pings,                \* per device: position of the ping worker
    tmp_file,             \* content of data/current.sqlite3.tmp
    current_file,         \* content of data/current.sqlite3
    published,            \* some publish has completed its rename
    pub,                  \* _update_current_db: position and locals
    control_file,         \* control/collector_control.json
    ctl_io,               \* control/collector_control.tmp and the calls of update_control_state
    running,              \* Collector.running
    commands,             \* Collector.commands, the configured command texts in order
    command_schedules,    \* Collector.command_schedules: per command, its cron schedule
    _interval_cache,      \* Config._interval_cache: per command, its own interval
    stop_call             \* Collector.stop: position, locals and what it has closed

sessionVars == <<_connection, _connection_lock, handles, connects, probe_failed>>
workerVars == <<sessionVars, upc, loc>>
storeVars == <<devices_tbl, commands_tbl, runs, run_seq, appended, ping_samples>>
loopVars == <<command_next_run, cl, pl, pings>>
fileVars == <<tmp_file, current_file, published, pub>>
ctlFileVars == <<control_file, ctl_io>>
ctlVars == <<ctlFileVars, running, stop_call>>
schedVars == <<commands, command_schedules, _interval_cache>>
staticVars == <<persistent, max_reconnect_attempts, output_exclusions, schedVars>>
cfgVars == <<staticVars, ctlVars>>
vars == <<now, cfgVars, workerVars, calls, storeVars, loopVars, fileVars>>

Dev(u) == u[1]
Cmd(u) == u[2]

RECURSIVE Pow2(_)
Pow2(n) == IF n = 0 THEN 1 ELSE 2 * Pow2(n - 1)

SetMax(S) == CHOOSE x \in S : \A y \in S : y <= x

(***************************************************************************)
(* shared/db.py : the store                                                *)
(***************************************************************************)
\* a path at which there is no file
NoFile == [exists |-> FALSE, complete |-> FALSE, devices |-> {}, commands |-> {},
           runs |-> {}, pings |-> [d \in Devices |-> 0]]

DeviceRow(name) == {r \in devices_tbl : r.name = name}
CommandRow(text) == {r \in commands_tbl : r.text = text}

NextId(tbl) == IF tbl = {} THEN 1 ELSE SetMax({r.id : r \in tbl}) + 1

PairRows(rs, did, cid) == {r \in rs : r.device_id = did /\ r.command_id = cid}

Min2(a, b) == IF a < b THEN a ELSE b

\* ORDER BY ts_epoch ASC in place of DESC
TopByTs_Oldest(rows, n) ==
    {K \in SUBSET rows :
        /\ Cardinality(K) = Min2(n, Cardinality(rows))
        /\ \A k \in K : \A r \in rows \ K : k.ts_epoch <= r.ts_epoch}

\* the sets of rows "SELECT id ... ORDER BY ts_epoch DESC LIMIT n" may return
TopByTs(rows, n) ==
    {K \in SUBSET rows :
        /\ Cardinality(K) = Min2(n, Cardinality(rows))
        /\ \A k \in K : \A r \in rows \ K : k.ts_epoch >= r.ts_epoch}

\* a delete without the WHERE device_id = ? AND command_id = ? of line 187
CleanupOldRuns_AllPairs(rs, did, cid) ==
    {K : K \in TopByTs(rs, history_size)}

\* the possible contents of runs after _cleanup_old_runs(did, cid)
CleanupOldRuns(rs, did, cid) ==
    {(rs \ PairRows(rs, did, cid)) \cup K :
        K \in TopByTs(PairRows(rs, did, cid), history_size)}

IsInjective(s) == \A i, j \in DOMAIN s : s[i] = s[j] => i = j

\* a read that ignores include_filtered and returns every run of the pair
get_latest_runs_AllRows(dv, cm, rs, name, text, limit, include_filtered) ==
    LET sel == {r \in rs :
                  /\ \E d \in dv : d.id = r.device_id /\ d.name = name
                  /\ \E c \in cm : c.id = r.command_id /\ c.text = text}
        k == IF limit < 0 THEN Cardinality(sel) ELSE Min2(limit, Cardinality(sel))
    IN {s \in [1..k -> sel] :
          /\ IsInjective(s)
          /\ \A i \in 1..k : \A j \in 1..k : i < j => s[i].ts_epoch >= s[j].ts_epoch
          /\ \A r \in sel \ {s[i] : i \in 1..k} :
                \A i \in 1..k : s[i].ts_epoch >= r.ts_epoch}

\* the possible results of get_latest_runs: sequences of rows, newest first
\* (a negative LIMIT is no limit)
get_latest_runs(dv, cm, rs, name, text, limit, include_filtered) ==
    LET sel == {r \in rs :
                  /\ \E d \in dv : d.id = r.device_id /\ d.name = name
                  /\ \E c \in cm : c.id = r.command_id /\ c.text = text
                  /\ (include_filtered \/ ~r.is_filtered)}
        k == IF limit < 0 THEN Cardinality(sel) ELSE Min2(limit, Cardinality(sel))
    IN {s \in [1..k -> sel] :
          /\ IsInjective(s)
          /\ \A i \in 1..k : \A j \in 1..k : i < j => s[i].ts_epoch >= s[j].ts_epoch
          /\ \A r \in sel \ {s[i] : i \in 1..k} :
                \A i \in 1..k : s[i].ts_epoch >= r.ts_epoch}

(***************************************************************************)
(* collector/main.py : DeviceCollector.execute_command                     *)
(***************************************************************************)
IdleLoc == [ts |-> 0, last_exception |-> None, err |-> NoError,
            phase |-> "try", did |-> 0, cid |-> 0, filtered |-> FALSE,
            hnd |-> 0, delays |-> <<>>, tries |-> 0, nrec |-> 0,
            result |-> None, stale |-> FALSE, raised |-> FALSE, lastout |-> None,
            probed |-> FALSE]

\* lines 149-157: start_time, ts_epoch, choice of the mode
StartBody(u) ==
    /\ loc' = [loc EXCEPT ![u] = [IdleLoc EXCEPT !.ts = now]]
    /\ upc' = [upc EXCEPT ![u] = IF persistent THEN "lock" ELSE "legacy_connect"]

\* a caller (a test, a script) calls execute_command(command, db) on a device
Call(u) ==
    /\ upc[u] = "idle"
    /\ calls < MaxCalls
    /\ calls' = calls + 1
    /\ StartBody(u)
    /\ UNCHANGED <<now, cfgVars, sessionVars, storeVars, loopVars, fileVars>>

\* a pool worker picks up a unit queued by run_in_executor
Start(u) ==
    /\ upc[u] = "queued"
    /\ StartBody(u)
    /\ UNCHANGED <<now, cfgVars, sessionVars, calls, storeVars, loopVars,
                   fileVars>>

\* a lock that never makes anybody wait
LockFree_NoWait(d) == TRUE

\* threading.Lock: acquirable only when nobody holds it
LockFree(d) == _connection_lock[d] = NoUnit

\* one lock that the collectors of all devices share
ConnectionLock_Shared(u) == DeviceOrder[1]

\* lines 56-58 and 159: self._connection_lock, the lock of the collector of
\* the unit's own device
ConnectionLock(u) == Dev(u)

\* line 159: with self._connection_lock
AcquireLock(u) ==
    /\ upc[u] = "lock"
    /\ LockFree(ConnectionLock(u))
    /\ _connection_lock' = [_connection_lock EXCEPT ![ConnectionLock(u)] = u]
    /\ upc' = [upc EXCEPT ![u] = "ensure"]
    /\ UNCHANGED <<now, cfgVars, _connection, handles, connects,
                   probe_failed, loc, calls, storeVars, loopVars, fileVars>>

\* a stored handle that is reused without a look at its probe
Reusable_NoProbe(conn, alive) == conn # 0

\* a stored handle that is never reused
Reusable_Never(conn, alive) == FALSE

\* line 104: reuse the stored handle when there is one and its probe succeeds
Reusable(conn, alive) == conn # 0 /\ alive

\* line 136: a back-off sleep follows every failed attempt but the last
SleepsAfter(attempt, maxa) == attempt < maxa - 1

\* a constant back-off
sleep_time_Constant(attempt) == reconnect_backoff_base

\* line 138
sleep_time(attempt) == reconnect_backoff_base * Pow2(attempt)

\* line 118: for attempt in range(self.max_reconnect_attempts)
MoreAttempts(attempt, maxa) == attempt < maxa

\* lines 117-145: the connect loop, outs[i] the outcome of the i-th _connect()
RECURSIVE ConnectLoop(_, _, _, _, _)
ConnectLoop(attempt, maxa, outs, last, delays) ==
    IF ~MoreAttempts(attempt, maxa)
    THEN [ok |-> FALSE, tries |-> attempt, last |-> last, delays |-> delays]
    ELSE IF attempt + 1 \in DOMAIN outs /\ outs[attempt + 1] = "ok"
    THEN [ok |-> TRUE, tries |-> attempt + 1, last |-> last, delays |-> delays]
    ELSE ConnectLoop(attempt + 1, maxa, outs, outs[attempt + 1],
                     IF SleepsAfter(attempt, maxa)
                     THEN Append(delays, sleep_time(attempt))
                     ELSE delays)

\* the outcomes of the successive _connect() calls of one connect loop: some
\* failures, then a success or nothing but failures
ConnectOutcomes(maxa) ==
    {o \in [1..maxa -> {"ok"} \cup ErrKinds] :
        \A i \in 1..maxa : o[i] = "ok" => i = maxa}
    \cup UNION {{[j \in 1..i |-> IF j = i THEN "ok" ELSE f[j]] :
                   f \in [1..i -> ErrKinds]} : i \in 1..maxa}

\* a dead handle that stays stored
AfterDiscard_Keep(conn) == conn

\* lines 108-114: what is stored after a dead handle has been discarded
AfterDiscard(conn) == 0

\* the handler of an exception raised inside the try block (line 217), or the
\* propagation of one raised by the handler itself
Raise(u, e, l) ==
    IF l.phase = "try"
    THEN /\ loc' = [loc EXCEPT ![u] = [l EXCEPT !.phase = "except", !.err = e]]
         /\ upc' = [upc EXCEPT ![u] = "sel_dev"]
    ELSE /\ loc' = [loc EXCEPT ![u] = [l EXCEPT !.raised = TRUE]]
         /\ upc' = [upc EXCEPT ![u] = "done"]

\* lines 97-145 _ensure_connected, called with the lock held (line 160)
EnsureConnected(u) ==
    LET d == Dev(u)
        conn == _connection[d]
    IN
    /\ upc[u] = "ensure"
    /\ \E alive \in (IF conn \in handles[d] THEN BOOLEAN ELSE {FALSE}) :
       \E outs \in ConnectOutcomes(max_reconnect_attempts) :
          /\ probe_failed' = [probe_failed EXCEPT ![d] = @ \/ (conn # 0 /\ ~alive)]
          /\ IF Reusable(conn, alive)
             THEN /\ upc' = [upc EXCEPT ![u] = "send"]
                  /\ loc' = [loc EXCEPT ![u].probed = alive]
                  /\ UNCHANGED <<_connection, _connection_lock, handles,
                                 connects>>
             ELSE LET r == ConnectLoop(0, max_reconnect_attempts, outs, None, <<>>)
                      l == [loc[u] EXCEPT !.tries = r.tries, !.delays = r.delays,
                                          !.last_exception = r.last,
                                          !.stale = (conn # 0),
                                          !.lastout = IF r.ok \/ outs = <<>> THEN None
                                                       ELSE outs[Len(outs)]]
                  IN IF r.ok
                     THEN /\ connects' = [connects EXCEPT ![d] = @ + 1]
                          /\ _connection' = [_connection EXCEPT ![d] = connects[d] + 1]
                          /\ handles' = [handles EXCEPT ![d] =
                                           (@ \ {conn}) \cup {connects[d] + 1}]
                          /\ loc' = [loc EXCEPT ![u] = l]
                          /\ upc' = [upc EXCEPT ![u] = "send"]
                          /\ UNCHANGED _connection_lock
                     ELSE /\ _connection' = [_connection EXCEPT ![d] = AfterDiscard(conn)]
                          /\ handles' = [handles EXCEPT ![d] = @ \ {conn}]
                          /\ _connection_lock' = [_connection_lock EXCEPT
                                                     ![ConnectionLock(u)] = NoUnit]
                          /\ Raise(u, <<"ConnectFailed", r.last>>,
                                   [l EXCEPT !.result = "connect"])
                          /\ UNCHANGED connects
    /\ UNCHANGED <<now, cfgVars, calls, storeVars, loopVars, fileVars>>

\* filters.py check_output_filtered (lines 27-40): the values is_filtered can
\* take; FALSE only when no output exclusion is configured (line 38)
IsFiltered == IF output_exclusions THEN BOOLEAN ELSE {FALSE}

\* line 161: send_command on the stored handle, then the with block ends
SendCommand(u) ==
    /\ upc[u] = "send"
    /\ _connection_lock' = [_connection_lock EXCEPT ![ConnectionLock(u)] = NoUnit]
    /\ \/ \E f \in IsFiltered :
             /\ _connection[Dev(u)] \in handles[Dev(u)]
             /\ loc' = [loc EXCEPT ![u].result = "ok", ![u].filtered = f]
             /\ upc' = [upc EXCEPT ![u] = "sel_dev"]
       \/ Raise(u, <<"ExecFailed", None>>, [loc[u] EXCEPT !.result = "exec"])
    /\ UNCHANGED <<now, cfgVars, _connection, handles, connects,
                   probe_failed, calls, storeVars, loopVars, fileVars>>

\* lines 164-182: legacy mode, one ConnectHandler call, no lock, no retry
LegacyConnect(u) ==
    /\ upc[u] = "legacy_connect"
    /\ \E r \in {"ok"} \cup ErrKinds :
          IF r = "ok"
          THEN /\ connects' = [connects EXCEPT ![Dev(u)] = @ + 1]
               /\ handles' = [handles EXCEPT ![Dev(u)] = @ \cup {connects[Dev(u)] + 1}]
               /\ loc' = [loc EXCEPT ![u].tries = 1,
                                     ![u].hnd = connects[Dev(u)] + 1]
               /\ upc' = [upc EXCEPT ![u] = "legacy_send"]
          ELSE /\ Raise(u, <<"ConnectError", r>>,
                        [loc[u] EXCEPT !.tries = 1, !.last_exception = r,
                                       !.result = "connect"])
               /\ UNCHANGED <<connects, handles>>
    /\ UNCHANGED <<now, cfgVars, _connection, _connection_lock, probe_failed,
                   calls, storeVars, loopVars, fileVars>>

\* lines 185-186: send_command, then disconnect (skipped when send raises)
LegacySend(u) ==
    /\ upc[u] = "legacy_send"
    /\ \/ \E f \in IsFiltered :
             /\ handles' = [handles EXCEPT ![Dev(u)] = @ \ {loc[u].hnd}]
             /\ loc' = [loc EXCEPT ![u].result = "ok", ![u].filtered = f,
                                   ![u].hnd = 0]
             /\ upc' = [upc EXCEPT ![u] = "sel_dev"]
       \/ /\ Raise(u, <<"ExecFailed", None>>, [loc[u] EXCEPT !.result = "exec"])
          /\ handles' = handles
    /\ UNCHANGED <<now, cfgVars, _connection, _connection_lock, connects,
                   probe_failed, calls, storeVars, loopVars, fileVars>>

(***************************************************************************)
(* shared/db.py : insert_run, statement by statement                       *)
(***************************************************************************)
\* get_or_create_device, lines 115-118: SELECT id FROM devices WHERE name = ?
SelectDevice(u) ==
    /\ upc[u] = "sel_dev"
    /\ IF DeviceRow(Dev(u)) # {}
       THEN /\ loc' = [loc EXCEPT ![u].did = (CHOOSE r \in DeviceRow(Dev(u)) : TRUE).id]
            /\ upc' = [upc EXCEPT ![u] = "sel_cmd"]
       ELSE /\ loc' = loc
            /\ upc' = [upc EXCEPT ![u] = "ins_dev"]
    /\ UNCHANGED <<now, cfgVars, sessionVars, calls, storeVars, loopVars,
                   fileVars>>

\* the UNIQUE constraint of devices.name / commands.command_text
UniqueViolation(rows) == rows # {}

\* get_or_create_device, lines 119-121: INSERT INTO devices, commit
InsertDevice(u) ==
    /\ upc[u] = "ins_dev"
    /\ IF UniqueViolation(DeviceRow(Dev(u)))
       THEN /\ Raise(u, <<"IntegrityError", None>>, loc[u])
            /\ devices_tbl' = devices_tbl
       ELSE /\ devices_tbl' = devices_tbl \cup
                                {[id |-> NextId(devices_tbl), name |-> Dev(u)]}
            /\ loc' = [loc EXCEPT ![u].did = NextId(devices_tbl)]
            /\ upc' = [upc EXCEPT ![u] = "sel_cmd"]
    /\ UNCHANGED <<now, cfgVars, sessionVars, calls, commands_tbl, runs,
                   run_seq, appended, ping_samples, loopVars, fileVars>>

\* get_or_create_command, lines 125-131
SelectCommand(u) ==
    /\ upc[u] = "sel_cmd"
    /\ IF CommandRow(Cmd(u)) # {}
       THEN /\ loc' = [loc EXCEPT ![u].cid = (CHOOSE r \in CommandRow(Cmd(u)) : TRUE).id]
            /\ upc' = [upc EXCEPT ![u] = "ins_run"]
       ELSE /\ loc' = loc
            /\ upc' = [upc EXCEPT ![u] = "ins_cmd"]
    /\ UNCHANGED <<now, cfgVars, sessionVars, calls, storeVars, loopVars,
                   fileVars>>

\* get_or_create_command, lines 132-136
InsertCommand(u) ==
    /\ upc[u] = "ins_cmd"
    /\ IF UniqueViolation(CommandRow(Cmd(u)))
       THEN /\ Raise(u, <<"IntegrityError", None>>, loc[u])
            /\ commands_tbl' = commands_tbl
       ELSE /\ commands_tbl' = commands_tbl \cup
                                 {[id |-> NextId(commands_tbl), text |-> Cmd(u)]}
            /\ loc' = [loc EXCEPT ![u].cid = NextId(commands_tbl)]
            /\ upc' = [upc EXCEPT ![u] = "ins_run"]
    /\ UNCHANGED <<now, cfgVars, sessionVars, calls, devices_tbl, runs,
                   run_seq, appended, ping_samples, loopVars, fileVars>>

\* the row execute_command hands to insert_run: lines 201-211 and 221-230
RunRow(u) ==
    [id |-> run_seq + 1, device_id |-> loc[u].did, command_id |-> loc[u].cid,
     ts_epoch |-> loc[u].ts,
     ok |-> (loc[u].phase = "try"),
     error_message |-> IF loc[u].phase = "try" THEN NoError ELSE loc[u].err,
     is_filtered |-> (loc[u].phase = "try" /\ loc[u].filtered)]

\* insert_run, lines 155-176: INSERT INTO runs, commit
InsertRunRow(u) ==
    /\ upc[u] = "ins_run"
    /\ runs' = runs \cup {RunRow(u)}
    /\ run_seq' = run_seq + 1
    /\ appended' = [appended EXCEPT ![u] = Append(@, loc[u].ts)]
    /\ loc' = [loc EXCEPT ![u].nrec = @ + 1]
    /\ upc' = [upc EXCEPT ![u] = "cleanup"]
    /\ UNCHANGED <<now, cfgVars, sessionVars, calls, devices_tbl,
                   commands_tbl, ping_samples, loopVars, fileVars>>

\* insert_run line 179 and _cleanup_old_runs, lines 181-203
CleanupRuns(u) ==
    /\ upc[u] = "cleanup"
    /\ \E rs \in CleanupOldRuns(runs, loc[u].did, loc[u].cid) : runs' = rs
    /\ loc' = loc
    /\ upc' = [upc EXCEPT ![u] = "done"]
    /\ UNCHANGED <<now, cfgVars, sessionVars, calls, devices_tbl,
                   commands_tbl, run_seq, appended, ping_samples, loopVars,
                   fileVars>>

\* execute_command returns (or its exception reaches the future): the worker is free
Return(u) ==
    /\ upc[u] = "done"
    /\ loc' = [loc EXCEPT ![u] = IdleLoc]
    /\ upc' = [upc EXCEPT ![u] = "idle"]
    /\ UNCHANGED <<now, cfgVars, sessionVars, calls, storeVars, loopVars,
                   fileVars>>

InitWorkers ==
    /\ _connection = [d \in Devices |-> 0]
    /\ _connection_lock = [d \in Devices |-> NoUnit]
    /\ handles = [d \in Devices |-> {}]
    /\ connects = [d \in Devices |-> 0]
    /\ probe_failed = [d \in Devices |-> FALSE]
    /\ upc = [u \in Units |-> "idle"]
    /\ loc = [u \in Units |-> IdleLoc]
    /\ calls = 0

InitStore ==
    /\ devices_tbl = {}
    /\ commands_tbl = {}
    /\ runs = {}
    /\ run_seq = 0
    /\ appended = [u \in Units |-> <<>>]
    /\ ping_samples = [d \in Devices |-> 0]

IdlePing == [pc |-> "idle", phase |-> "try"]

InitLoops ==
    /\ command_next_run = [c \in Commands |-> 0]
    /\ cl = [pc |-> "sleep", wake |-> 0, now |-> 0, futures |-> <<>>, due |-> {},
             pubs |-> 0, gathered |-> 0]
    /\ pl = [pc |-> "sleep", wake |-> 0]
    /\ pings = [d \in Devices |-> IdlePing]

IdlePub == [pc |-> "idle", lane |-> None, attempt |-> 0, delay |-> 1, slept |-> <<>>]

InitFiles ==
    /\ tmp_file = NoFile
    /\ current_file = NoFile
    /\ published = FALSE
    /\ pub = IdlePub

DEFAULT_CONTROL_STATE == [commands_paused |-> FALSE, shutdown_requested |-> FALSE,
                          updated_at |-> 0]

\* the callers of update_control_state (request handlers of the dashboard)
Writers == {"w1", "w2"}

\* a path of the control directory at which there is no file; complete tells
\* whether the content of a file is a whole JSON document
NoDocument == [exists |-> FALSE, complete |-> FALSE, state |-> DEFAULT_CONTROL_STATE]

\* no call of update_control_state is under way: `at` is the path at which the
\* file a writer has opened is found ("tmp", "path", or "gone" once another
\* file has been renamed over it)
\* last: the argument of the call of update_control_state that returned
\* last and the state that was stored when it began; fresh: nothing has
\* written to collector_control.json since that call returned
NoLast == [valid |-> FALSE, named |-> {}, update |-> DEFAULT_CONTROL_STATE,
           before |-> DEFAULT_CONTROL_STATE, fresh |-> FALSE]
IdleWriter == [pc |-> "idle", state |-> DEFAULT_CONTROL_STATE, at |-> "gone",
               raised |-> FALSE, call |-> NoLast]
IdleIo == [tmp |-> NoDocument, w |-> [w \in Writers |-> IdleWriter], last |-> NoLast]

\* Collector.stop has not been called: inflight holds the units that were in
\* the pool when it was first called, live the devices with a session when
\* its first sweep began, disconnects counts the disconnect() calls made by
\* DeviceCollector.close, failed holds the devices whose disconnect() raised,
\* db_closed is Database.close
IdleStop == [pc |-> "idle", i |-> 1, calls |-> 0, inflight |-> {}, live |-> {},
             failed |-> {},
             disconnects |-> [d \in Devices |-> 0], db_closed |-> FALSE]

\* a command without a cron schedule (get_command_schedule returns None), a
\* command without an interval of its own (get_command_interval returns None)
NoSchedule == 0
NoInterval == 0

\* every command of CommandOrder is configured, with neither a cron schedule
\* nor an interval of its own
InitSchedules ==
    /\ commands = CommandOrder
    /\ command_schedules = [c \in Commands |-> NoSchedule]
    /\ _interval_cache = [c \in Commands |-> NoInterval]

InitControl ==
    /\ InitSchedules
    /\ control_file = NoDocument
    /\ ctl_io = IdleIo
    /\ running = TRUE
    /\ stop_call = IdleStop

\* the wall clock advances by one second
Tick ==
    /\ now < MaxTime
    /\ now' = now + 1
    /\ UNCHANGED <<cfgVars, workerVars, calls, storeVars, loopVars, fileVars>>

\* the positions inside db.insert_run, and inside the device session; the
\* return of a finished call touches nothing shared and belongs to both
StorePcs == {"sel_dev", "ins_dev", "sel_cmd", "ins_cmd", "ins_run", "cleanup", "done"}
SessionPcs == {"lock", "ensure", "send", "legacy_connect", "legacy_send", "done"}
WorkerPcs == (StorePcs \cup SessionPcs) \ {"done"}
PingPcs == {"sel_dev", "ins_dev", "ins_ping"}

\* no unit other than u is at one of the positions P
Alone(u, P) == \A v \in Units \ {u} : upc[v] \notin P

(***************************************************************************)
(* Spec: the connection manager.  execute_command is called by any caller  *)
(* on any (device, command); the steps on the device session interleave    *)
(* freely, each db.insert_run call runs without interruption.              *)
(***************************************************************************)
Init ==
    /\ now = 0
    /\ persistent \in BOOLEAN
    /\ max_reconnect_attempts \in 0..MaxReconnect
    /\ output_exclusions = FALSE
    /\ InitWorkers
    /\ InitStore
    /\ InitLoops
    /\ InitFiles
    /\ InitControl

Next ==
    \/ \E u \in Units : Alone(u, StorePcs) /\ Call(u)
    \/ \E u \in Units : Alone(u, StorePcs) /\ AcquireLock(u)
    \/ \E u \in Units : Alone(u, StorePcs) /\ EnsureConnected(u)
    \/ \E u \in Units : Alone(u, StorePcs) /\ SendCommand(u)
    \/ \E u \in Units : Alone(u, StorePcs) /\ LegacyConnect(u)
    \/ \E u \in Units : Alone(u, StorePcs) /\ LegacySend(u)
    \/ \E u \in Units : Alone(u, StorePcs) /\ SelectDevice(u)
    \/ \E u \in Units : Alone(u, StorePcs) /\ InsertDevice(u)
    \/ \E u \in Units : Alone(u, StorePcs) /\ SelectCommand(u)
    \/ \E u \in Units : Alone(u, StorePcs) /\ InsertCommand(u)
    \/ \E u \in Units : Alone(u, StorePcs) /\ InsertRunRow(u)
    \/ \E u \in Units : Alone(u, StorePcs) /\ CleanupRuns(u)
    \/ \E u \in Units : Alone(u, StorePcs) /\ Return(u)

Spec == Init /\ [][Next]_vars

(***************************************************************************)
(* SpecLive: the connection manager with the progress its code justifies.  *)
(* A worker thread that can take a step takes it.  A device operation ends *)
(* (with a result or with a timeout error) when the configured timeout     *)
(* governs it: _get_connection_params (line 75) hands connection_timeout   *)
(* to the ConnectHandler of the persistent mode, and the probe and the     *)
(* command run on that session.  The ConnectHandler call of the legacy     *)
(* mode (lines 176-182) is given no timeout, so nothing in the code bounds *)
(* the legacy connect and the command sent on its session.                 *)
(***************************************************************************)
Progress(u) ==
    /\ WF_vars(Alone(u, StorePcs) /\ AcquireLock(u))
    /\ WF_vars(Alone(u, StorePcs) /\ EnsureConnected(u))
    /\ WF_vars(Alone(u, StorePcs) /\ SendCommand(u))
    /\ WF_vars(Alone(u, StorePcs) /\ SelectDevice(u))
    /\ WF_vars(Alone(u, StorePcs) /\ InsertDevice(u))
    /\ WF_vars(Alone(u, StorePcs) /\ SelectCommand(u))
    /\ WF_vars(Alone(u, StorePcs) /\ InsertCommand(u))
    /\ WF_vars(Alone(u, StorePcs) /\ InsertRunRow(u))
    /\ WF_vars(Alone(u, StorePcs) /\ CleanupRuns(u))
    /\ WF_vars(Alone(u, StorePcs) /\ Return(u))

SpecLive == Init /\ [][Next]_vars /\ \A u \in Units : Progress(u)

(***************************************************************************)
(* SpecUnits: whole units of work.  The statements of insert_run of         *)
(* concurrent workers interleave freely, the session part of a unit runs   *)
(* without interruption.                                                   *)
(***************************************************************************)
NextUnits ==
    \/ \E u \in Units : Alone(u, SessionPcs) /\ Call(u)
    \/ \E u \in Units : Alone(u, SessionPcs) /\ AcquireLock(u)
    \/ \E u \in Units : Alone(u, SessionPcs) /\ EnsureConnected(u)
    \/ \E u \in Units : Alone(u, SessionPcs) /\ SendCommand(u)
    \/ \E u \in Units : Alone(u, SessionPcs) /\ LegacyConnect(u)
    \/ \E u \in Units : Alone(u, SessionPcs) /\ LegacySend(u)
    \/ \E u \in Units : Alone(u, SessionPcs) /\ SelectDevice(u)
    \/ \E u \in Units : Alone(u, SessionPcs) /\ InsertDevice(u)
    \/ \E u \in Units : Alone(u, SessionPcs) /\ SelectCommand(u)
    \/ \E u \in Units : Alone(u, SessionPcs) /\ InsertCommand(u)
    \/ \E u \in Units : Alone(u, SessionPcs) /\ InsertRunRow(u)
    \/ \E u \in Units : Alone(u, SessionPcs) /\ CleanupRuns(u)
    \/ \E u \in Units : Alone(u, SessionPcs) /\ Return(u)

InitUnits ==
    /\ now = 0
    /\ persistent \in BOOLEAN
    /\ max_reconnect_attempts = 1
    /\ output_exclusions = FALSE
    /\ InitWorkers
    /\ InitStore
    /\ InitLoops
    /\ InitFiles
    /\ InitControl

SpecUnits == InitUnits /\ [][NextUnits]_vars

(***************************************************************************)
(* SpecStore: the Database API driven by one caller, as in test_db.py:     *)
(* insert_run(device, command, ts_epoch, ok, is_filtered) with the inputs  *)
(* drawn from small sets, one call at a time, statement by statement;      *)
(* ts_epoch is the caller's clock, which never goes back.                  *)
(***************************************************************************)
MaxAppends == history_size + 1

\* the (ok, is_filtered) pairs execute_command passes (lines 201-211, 221-230)
RunKinds == {<<TRUE, FALSE>>, <<TRUE, TRUE>>, <<FALSE, FALSE>>}

\* db.py line 138: a caller calls insert_run for the pair u, its n-th call
\* of the Database API at most
AppendRun(u, n) ==
    /\ \A v \in Units : upc[v] = "idle"
    /\ calls < n
    /\ calls' = calls + 1
    /\ \E t \in now..MaxTime : \E k \in RunKinds :
          /\ now' = t
          /\ loc' = [loc EXCEPT ![u] =
                    [IdleLoc EXCEPT !.ts = t,
                                    !.phase = IF k[1] THEN "try" ELSE "except",
                                    !.err = IF k[1] THEN NoError ELSE <<"ExecFailed", None>>,
                                    !.filtered = k[2]]]
    /\ upc' = [upc EXCEPT ![u] = "sel_dev"]
    /\ UNCHANGED <<cfgVars, sessionVars, storeVars, loopVars, fileVars>>

insert_run(u) == AppendRun(u, MaxAppends)

InitStoreSpec ==
    /\ now = 0
    /\ persistent = TRUE
    /\ max_reconnect_attempts = 0
    /\ output_exclusions = TRUE
    /\ InitWorkers
    /\ InitStore
    /\ InitLoops
    /\ InitFiles
    /\ InitControl

NextStore ==
    \/ \E u \in Units : insert_run(u)
    \/ \E u \in Units : SelectDevice(u)
    \/ \E u \in Units : InsertDevice(u)
    \/ \E u \in Units : SelectCommand(u)
    \/ \E u \in Units : InsertCommand(u)
    \/ \E u \in Units : InsertRunRow(u)
    \/ \E u \in Units : CleanupRuns(u)
    \/ \E u \in Units : Return(u)

SpecStore == InitStoreSpec /\ [][NextStore]_vars

(***************************************************************************)
(* SpecRead: the store under the appends of two pairs of one device, read  *)
(* by get_latest_runs with every limit and both values of the flag.        *)
(***************************************************************************)
ReadUnits == {u \in Units : u[1] = "d1"}

NextRead ==
    \/ \E u \in ReadUnits : insert_run(u)
    \/ \E u \in ReadUnits : SelectDevice(u)
    \/ \E u \in ReadUnits : InsertDevice(u)
    \/ \E u \in ReadUnits : SelectCommand(u)
    \/ \E u \in ReadUnits : InsertCommand(u)
    \/ \E u \in ReadUnits : InsertRunRow(u)
    \/ \E u \in ReadUnits : CleanupRuns(u)
    \/ \E u \in ReadUnits : Return(u)

SpecRead == InitStoreSpec /\ [][NextRead]_vars

(***************************************************************************)
(* collector/main.py : Collector, the two loops of run() and the publisher *)
(***************************************************************************)
Range(f) == {f[i] : i \in DOMAIN f}
SetMin(S) == CHOOSE x \in S : \A y \in S : x <= y
Max2(a, b) == IF a > b THEN a ELSE b

\* croniter(schedule, t).get_next(): the first occurrence after t of a
\* schedule that fires at every multiple of `schedule` seconds
CronNext(schedule, t) == ((t \div schedule) + 1) * schedule

\* a rescheduling that leaves the command due at the same time again
NextSlot_Now(c, t) == t

\* lines 412-420: the next run time of a command dispatched at time t
NextSlot(c, t) ==
    IF command_schedules[c] # NoSchedule
    THEN CronNext(command_schedules[c], t)
    ELSE t + interval_seconds

\* a start-up that gives a cron-scheduled command the start-up time too
InitialNextRun_AllNow(c, t) == t

\* lines 355-368: the first run time of a command, t the start-up time
InitialNextRun(c, t) ==
    IF command_schedules[c] # NoSchedule
    THEN CronNext(command_schedules[c], t)
    ELSE t

\* a due check that lets a command wait until its time has passed
IsDue_Strict(t, next_run) == t > next_run

\* lines 404-405: the due check, next_run the entry of command_next_run
IsDue(t, next_run) == t >= next_run

\* lines 401-420: the two nested loops of collect_commands, from device i and
\* command j on; next_run is command_next_run as updated so far
RECURSIVE DispatchLoop(_, _, _, _, _)
DispatchLoop(i, j, t, next_run, futures) ==
    IF i > Len(DeviceOrder)
    THEN [futures |-> futures, next_run |-> next_run]
    ELSE IF j > Len(commands)
    THEN DispatchLoop(i + 1, 1, t, next_run, futures)
    ELSE LET c == commands[j]
         IN IF IsDue(t, next_run[c])
            THEN DispatchLoop(i, j + 1, t, [next_run EXCEPT ![c] = NextSlot(c, t)],
                              Append(futures, <<DeviceOrder[i], c>>))
            ELSE DispatchLoop(i, j + 1, t, next_run, futures)

\* a sleep without the floor of one second
SleepTime_NoFloor(next_run, t) ==
    IF commands = <<>>
    THEN interval_seconds
    ELSE Min2(60, SetMin({Max2(0, next_run[c] - t) : c \in Range(commands)}))

\* lines 476-492: how long command_loop sleeps after a tick
SleepTime(next_run, t) ==
    IF commands = <<>>
    THEN interval_seconds
    ELSE Max2(1, Min2(60, SetMin({Max2(0, next_run[c] - t) : c \in Range(commands)})))

\* an event loop that takes up a lane while _update_current_db is running
LoopFree_Always == TRUE

\* the event loop thread is not inside _update_current_db
LoopFree == pub.pc = "idle"

\* line 445: _update_current_db is entered by a lane
StartPub(lane) == [pc |-> "copy", lane |-> lane, attempt |-> 0, delay |-> 1,
                   slept |-> <<>>]

\* lines 394-420, with the wake-up of command_loop (line 492) that leads to
\* it: the due units are handed to the pool; with nothing due the call
\* returns (lines 423-428 are skipped) and command_loop goes back to sleep
collect_commands ==
    /\ cl.pc = "sleep"
    /\ now >= cl.wake
    /\ LoopFree
    /\ LET r == DispatchLoop(1, 1, now, command_next_run, <<>>)
       IN /\ command_next_run' = r.next_run
          /\ upc' = [u \in Units |-> IF u \in Range(r.futures) THEN "queued"
                                     ELSE upc[u]]
          /\ cl' = [pc |-> IF r.futures = <<>> THEN "sleep" ELSE "gather",
                    wake |-> IF r.futures = <<>>
                             THEN now + SleepTime(r.next_run, now) ELSE cl.wake,
                    now |-> now,
                    futures |-> r.futures,
                    due |-> {c \in Commands : now >= command_next_run[c]},
                    pubs |-> 0,
                    gathered |-> cl.gathered]
    /\ UNCHANGED <<now, cfgVars, sessionVars, loc, calls, storeVars, pl, pings,
                   fileVars>>

\* a wait that returns with the first future that is done
BatchDone_First(futures) == \E u \in Range(futures) : upc[u] = "done"

\* line 424: asyncio.gather(*futures) is complete when every future is done
BatchDone(futures) == \A u \in Range(futures) : upc[u] = "done"

\* lines 423-428: asyncio.gather returns when every future is done (an
\* exception of a unit is a result, return_exceptions=True); the publisher
\* is entered
GatherCommands ==
    /\ cl.pc = "gather"
    /\ BatchDone(cl.futures)
    /\ LoopFree
    /\ upc' = [u \in Units |-> IF u \in Range(cl.futures) /\ upc[u] = "done"
                               THEN "idle" ELSE upc[u]]
    /\ loc' = [u \in Units |-> IF u \in Range(cl.futures) /\ upc[u] = "done"
                               THEN IdleLoc ELSE loc[u]]
    /\ cl' = [cl EXCEPT !.pc = "publish", !.pubs = @ + 1, !.gathered = now]
    /\ pub' = StartPub("cmd")
    /\ UNCHANGED <<now, cfgVars, sessionVars, calls, storeVars, command_next_run,
                   pl, pings, tmp_file, current_file, published>>

\* lines 430-438, with the wake-up of ping_loop (line 499): one ping worker
\* per device is handed to the pool
collect_pings ==
    /\ pl.pc = "sleep"
    /\ now >= pl.wake
    /\ LoopFree
    /\ pings' = [d \in Devices |-> [pc |-> "queued", phase |-> "try"]]
    /\ pl' = [pl EXCEPT !.pc = "gather"]
    /\ UNCHANGED <<now, cfgVars, workerVars, calls, storeVars, command_next_run,
                   cl, fileVars>>

\* ping_device (lines 253-313) up to the SELECT of get_or_create_device in
\* insert_ping_sample (db.py 214, 115-118)
PingSelectDevice(d) ==
    /\ pings[d].pc \in {"queued", "sel_dev"}
    /\ pings' = [pings EXCEPT ![d].pc = IF DeviceRow(d) # {} THEN "ins_ping"
                                        ELSE "ins_dev"]
    /\ UNCHANGED <<now, cfgVars, workerVars, calls, storeVars, command_next_run,
                   cl, pl, fileVars>>

\* db.py 119-121 for a ping worker; an IntegrityError raised in the try block
\* is handled by a second insert_ping_sample (main.py 307-313)
PingInsertDevice(d) ==
    /\ pings[d].pc = "ins_dev"
    /\ IF UniqueViolation(DeviceRow(d))
       THEN /\ pings' = [pings EXCEPT ![d] =
                           IF @.phase = "try"
                           THEN [pc |-> "sel_dev", phase |-> "except"]
                           ELSE [pc |-> "done", phase |-> "raised"]]
            /\ devices_tbl' = devices_tbl
       ELSE /\ devices_tbl' = devices_tbl \cup
                                {[id |-> NextId(devices_tbl), name |-> d]}
            /\ pings' = [pings EXCEPT ![d].pc = "ins_ping"]
    /\ UNCHANGED <<now, cfgVars, workerVars, calls, commands_tbl, runs, run_seq,
                   appended, ping_samples, command_next_run, cl, pl, fileVars>>

\* db.py 216-224: INSERT INTO ping_samples, commit
PingInsertSample(d) ==
    /\ pings[d].pc = "ins_ping"
    /\ ping_samples' = [ping_samples EXCEPT ![d] = @ + 1]
    /\ pings' = [pings EXCEPT ![d].pc = "done"]
    /\ UNCHANGED <<now, cfgVars, workerVars, calls, devices_tbl, commands_tbl,
                   runs, run_seq, appended, command_next_run, cl, pl, fileVars>>

\* lines 439-443: the ping batch is complete, the publisher is entered
GatherPings ==
    /\ pl.pc = "gather"
    /\ \A d \in Devices : pings[d].pc = "done"
    /\ LoopFree
    /\ pings' = [d \in Devices |-> IdlePing]
    /\ pl' = [pl EXCEPT !.pc = "publish"]
    /\ pub' = StartPub("ping")
    /\ UNCHANGED <<now, cfgVars, workerVars, calls, storeVars, command_next_run,
                   cl, tmp_file, current_file, published>>

\* _update_current_db returns (lines 457, 463): its caller goes on to the
\* sleep of its loop (lines 476-492, line 499)
PublishReturns ==
    /\ pub' = IdlePub
    /\ IF pub.lane = "cmd"
       THEN /\ cl' = [cl EXCEPT !.pc = "sleep",
                                !.wake = now + SleepTime(command_next_run, now)]
            /\ pl' = pl
       ELSE /\ pl' = [pl EXCEPT !.pc = "sleep",
                                !.wake = now + ping_interval_seconds]
            /\ cl' = cl

\* a publisher that gives up one attempt early
PublishRaises_OneLess ==
    IF pub.attempt = PublishAttempts - 2
    THEN PublishReturns
    ELSE /\ pub' = [pub EXCEPT !.pc = "copy",
                               !.attempt = @ + 1,
                               !.slept = Append(@, Min2(5, pub.delay)),
                               !.delay = Min2(5, pub.delay * 2)]
         /\ UNCHANGED <<cl, pl>>

\* lines 458-465: a step of the try block has raised
PublishRaises ==
    IF pub.attempt = PublishAttempts - 1
    THEN PublishReturns
    ELSE /\ pub' = [pub EXCEPT !.pc = "copy",
                               !.attempt = @ + 1,
                               !.slept = Append(@, Min2(5, pub.delay)),
                               !.delay = Min2(5, pub.delay * 2)]
         /\ UNCHANGED <<cl, pl>>

\* line 450, shutil.copy2 of the live store file: the temporary file is
\* created and the first part of the file (the devices and commands tables)
\* is read and written
CopyBegin ==
    /\ pub.pc = "copy"
    /\ \/ /\ tmp_file' = [NoFile EXCEPT !.exists = TRUE,
                                        !.devices = devices_tbl,
                                        !.commands = commands_tbl]
          /\ pub' = [pub EXCEPT !.pc = "copy_rest"]
          /\ UNCHANGED <<cl, pl>>
       \/ /\ PublishRaises
          /\ UNCHANGED tmp_file
    /\ UNCHANGED <<now, cfgVars, workerVars, calls, storeVars, command_next_run,
                   pings, current_file, published>>

\* line 450, the rest of the copy: the runs and ping_samples tables
CopyEnd ==
    /\ pub.pc = "copy_rest"
    /\ \/ /\ tmp_file' = [tmp_file EXCEPT !.runs = runs, !.pings = ping_samples,
                                          !.complete = TRUE]
          /\ pub' = [pub EXCEPT !.pc = "unlink"]
          /\ UNCHANGED <<cl, pl>>
       \/ /\ PublishRaises
          /\ UNCHANGED tmp_file
    /\ UNCHANGED <<now, cfgVars, workerVars, calls, storeVars, command_next_run,
                   pings, current_file, published>>

\* lines 452-453: if current.sqlite3 exists it is unlinked
UnlinkCurrent ==
    /\ pub.pc = "unlink"
    /\ \/ /\ current_file' = NoFile
          /\ pub' = [pub EXCEPT !.pc = "rename"]
          /\ UNCHANGED <<cl, pl>>
       \/ /\ current_file.exists
          /\ PublishRaises
          /\ UNCHANGED current_file
    /\ UNCHANGED <<now, cfgVars, workerVars, calls, storeVars, command_next_run,
                   pings, tmp_file, published>>

\* lines 455-456: the temporary file is renamed to current.sqlite3
RenameTmp ==
    /\ pub.pc = "rename"
    /\ \/ /\ current_file' = tmp_file
          /\ tmp_file' = NoFile
          /\ published' = TRUE
          /\ PublishReturns
       \/ /\ PublishRaises
          /\ UNCHANGED <<tmp_file, current_file, published>>
    /\ UNCHANGED <<now, cfgVars, workerVars, calls, storeVars, command_next_run,
                   pings>>

(***************************************************************************)
(* SpecFrame: the store under one caller that appends runs for the pairs   *)
(* of one device and ping samples for every device, one call after the     *)
(* other: a run of the second pair at most, then runs of the first pair.   *)
(***************************************************************************)
\* no call of the Database API is under way
NoDbCall ==
    /\ \A u \in Units : upc[u] = "idle"
    /\ \A d \in Devices : pings[d].pc = "idle"

\* the calls of insert_run of the caller: enough for one pair to go over the
\* retention count while the other pair holds a run
FrameAppends == history_size + 2

\* db.py line 205: a caller calls insert_ping_sample(device_name, ...), once
\* for a device
insert_ping_sample(d) ==
    /\ NoDbCall
    /\ ping_samples[d] = 0
    /\ calls' = calls
    /\ pings' = [pings EXCEPT ![d] = [pc |-> "sel_dev", phase |-> "try"]]
    /\ UNCHANGED <<now, cfgVars, workerVars, storeVars, command_next_run, cl, pl,
                   fileVars>>

\* db.py line 224: insert_ping_sample returns
ReturnPing(d) ==
    /\ pings[d].pc = "done"
    /\ pings' = [pings EXCEPT ![d] = IdlePing]
    /\ UNCHANGED <<now, cfgVars, workerVars, calls, storeVars, command_next_run,
                   cl, pl, fileVars>>

\* the caller appends for the second command in its first call only
FrameOrder(u) == Cmd(u) = CommandOrder[1] \/ calls = 0

NextFrame ==
    \/ \E u \in ReadUnits : NoDbCall /\ FrameOrder(u) /\ AppendRun(u, FrameAppends)
    \/ \E u \in ReadUnits : SelectDevice(u)
    \/ \E u \in ReadUnits : InsertDevice(u)
    \/ \E u \in ReadUnits : SelectCommand(u)
    \/ \E u \in ReadUnits : InsertCommand(u)
    \/ \E u \in ReadUnits : InsertRunRow(u)
    \/ \E u \in ReadUnits : CleanupRuns(u)
    \/ \E u \in ReadUnits : Return(u)
    \/ \E d \in Devices : insert_ping_sample(d)
    \/ \E d \in Devices : PingSelectDevice(d)
    \/ \E d \in Devices : PingInsertDevice(d)
    \/ \E d \in Devices : PingInsertSample(d)
    \/ \E d \in Devices : ReturnPing(d)

SpecFrame == InitStoreSpec /\ [][NextFrame]_vars

\* no worker other than the unit u is between its first and its last step
OneWorker(u) ==
    /\ \A v \in Units \ {u} : upc[v] \notin WorkerPcs
    /\ \A d \in Devices : pings[d].pc \notin PingPcs

\* no worker other than the ping worker of d is between its first and its
\* last step
OnePing(d) ==
    /\ \A v \in Units : upc[v] \notin WorkerPcs
    /\ \A e \in Devices \ {d} : pings[e].pc \notin PingPcs

InitEngine ==
    /\ now = 0
    /\ persistent = TRUE
    /\ max_reconnect_attempts = 1
    /\ output_exclusions = FALSE
    /\ InitWorkers
    /\ InitStore
    /\ InitLoops
    /\ InitFiles
    /\ InitControl

(***************************************************************************)
(* SpecSched: the command lane.  command_loop alone, its workers one after *)
(* the other; the clock advances while the lane sleeps and between the end *)
(* of the last worker of a batch and its publish.                          *)
(***************************************************************************)
Settled ==
    \/ cl.pc = "sleep"
    \/ cl.pc = "gather" /\ \A u \in Range(cl.futures) : upc[u] = "done"

NextSched ==
    \/ Settled /\ Tick
    \/ collect_commands
    \/ \E u \in Units : OneWorker(u) /\ Start(u)
    \/ \E u \in Units : OneWorker(u) /\ AcquireLock(u)
    \/ \E u \in Units : OneWorker(u) /\ EnsureConnected(u)
    \/ \E u \in Units : OneWorker(u) /\ SendCommand(u)
    \/ \E u \in Units : OneWorker(u) /\ SelectDevice(u)
    \/ \E u \in Units : OneWorker(u) /\ InsertDevice(u)
    \/ \E u \in Units : OneWorker(u) /\ SelectCommand(u)
    \/ \E u \in Units : OneWorker(u) /\ InsertCommand(u)
    \/ \E u \in Units : OneWorker(u) /\ InsertRunRow(u)
    \/ \E u \in Units : OneWorker(u) /\ CleanupRuns(u)
    \/ GatherCommands
    \/ CopyBegin
    \/ CopyEnd
    \/ UnlinkCurrent
    \/ RenameTmp

SpecSched == InitEngine /\ [][NextSched]_vars

(***************************************************************************)
(* SpecPub: the publisher.  The first round of both lanes, within one      *)
(* second of the clock: the workers run one after the other but interleave *)
(* with the steps of the publishes.                                        *)
(***************************************************************************)
NextPub ==
    \/ collect_commands
    \/ collect_pings
    \/ \E u \in Units : OneWorker(u) /\ Start(u)
    \/ \E u \in Units : OneWorker(u) /\ AcquireLock(u)
    \/ \E u \in Units : OneWorker(u) /\ EnsureConnected(u)
    \/ \E u \in Units : OneWorker(u) /\ SendCommand(u)
    \/ \E u \in Units : OneWorker(u) /\ SelectDevice(u)
    \/ \E u \in Units : OneWorker(u) /\ InsertDevice(u)
    \/ \E u \in Units : OneWorker(u) /\ SelectCommand(u)
    \/ \E u \in Units : OneWorker(u) /\ InsertCommand(u)
    \/ \E u \in Units : OneWorker(u) /\ InsertRunRow(u)
    \/ \E u \in Units : OneWorker(u) /\ CleanupRuns(u)
    \/ \E d \in Devices : OnePing(d) /\ PingSelectDevice(d)
    \/ \E d \in Devices : OnePing(d) /\ PingInsertDevice(d)
    \/ \E d \in Devices : OnePing(d) /\ PingInsertSample(d)
    \/ GatherCommands
    \/ GatherPings
    \/ CopyBegin
    \/ CopyEnd
    \/ UnlinkCurrent
    \/ RenameTmp

SpecPub == InitEngine /\ [][NextPub]_vars

(***************************************************************************)
(* SpecPool: the worker pool.  The first round of both lanes; a unit or a  *)
(* ping worker starts when one of the max_workers threads is free; the     *)
(* steps on the device sessions interleave freely, each insert_run and     *)
(* each ping worker runs without interruption.  The pool hands out its     *)
(* threads in any order.                                                   *)
(***************************************************************************)
\* the units and ping workers that occupy a thread of the pool
Running ==
    {<<"unit", u>> : u \in {v \in Units : upc[v] \in WorkerPcs}}
    \cup {<<"ping", d>> : d \in {e \in Devices : pings[e].pc \in PingPcs}}

\* line 336: a thread of the executor is free
PoolFree == Cardinality(Running) < max_workers

\* a ping worker that is still queued needs a free thread to start
PingAdmitted(d) == pings[d].pc = "queued" => PoolFree

\* no other worker is inside the store
StoreFree(w) ==
    /\ \A v \in Units : <<"unit", v>> # w => upc[v] \notin StorePcs \ {"done"}
    /\ \A d \in Devices : <<"ping", d>> # w => pings[d].pc \notin PingPcs

NextPool ==
    \/ collect_commands
    \/ collect_pings
    \/ \E u \in Units : StoreFree(<<"unit", u>>) /\ PoolFree /\ Start(u)
    \/ \E u \in Units : StoreFree(<<"unit", u>>) /\ AcquireLock(u)
    \/ \E u \in Units : StoreFree(<<"unit", u>>) /\ EnsureConnected(u)
    \/ \E u \in Units : StoreFree(<<"unit", u>>) /\ SendCommand(u)
    \/ \E u \in Units : StoreFree(<<"unit", u>>) /\ SelectDevice(u)
    \/ \E u \in Units : StoreFree(<<"unit", u>>) /\ InsertDevice(u)
    \/ \E u \in Units : StoreFree(<<"unit", u>>) /\ SelectCommand(u)
    \/ \E u \in Units : StoreFree(<<"unit", u>>) /\ InsertCommand(u)
    \/ \E u \in Units : StoreFree(<<"unit", u>>) /\ InsertRunRow(u)
    \/ \E u \in Units : StoreFree(<<"unit", u>>) /\ CleanupRuns(u)
    \/ \E d \in Devices : StoreFree(<<"ping", d>>) /\ PingAdmitted(d) /\ PingSelectDevice(d)
    \/ \E d \in Devices : StoreFree(<<"ping", d>>) /\ PingInsertDevice(d)
    \/ \E d \in Devices : StoreFree(<<"ping", d>>) /\ PingInsertSample(d)
    \/ GatherCommands
    \/ GatherPings
    \/ CopyBegin
    \/ CopyEnd
    \/ UnlinkCurrent
    \/ RenameTmp

SpecPool == InitEngine /\ [][NextPool]_vars

(***************************************************************************)
(* The control-state file (shared/control_state.py) and the shutdown       *)
(* (Collector.stop, main.signal_handler).                                  *)
(***************************************************************************)
ControlKeys == {"commands_paused", "shutdown_requested"}

\* the argument of update_control_state: values for some of the keys
Updates == UNION {[K -> BOOLEAN] : K \in SUBSET ControlKeys}

\* control_state.py lines 50-62 (the file is written by a rename, so a reader
\* finds no file or a whole document)
read_control_state ==
    IF control_file.exists /\ control_file.complete
    THEN control_file.state
    ELSE DEFAULT_CONTROL_STATE

\* control_state.py lines 84-85: the stored state with the keys of update
\* replaced
Merged(current, update) ==
    [commands_paused |-> IF "commands_paused" \in DOMAIN update
                         THEN update["commands_paused"]
                         ELSE current.commands_paused,
     shutdown_requested |-> IF "shutdown_requested" \in DOMAIN update
                            THEN update["shutdown_requested"]
                            ELSE current.shutdown_requested,
     updated_at |-> now]

\* control_state.py lines 82-86, with write_control_state (lines 65-79): the
\* control surface of the dashboard changes some keys of the document, in a
\* call that no other call overlaps
update_control_state(update) ==
    /\ control_file' = [exists |-> TRUE, complete |-> TRUE,
                        state |-> Merged(read_control_state, update)]
    /\ UNCHANGED <<now, staticVars, ctl_io, running,
                   stop_call, workerVars, calls, storeVars, loopVars, fileVars>>

\* the length of the document json.dump writes for a state, up to a
\* constant: `true` is one character shorter than `false`
DocLen(state) ==
    (IF state.commands_paused THEN 0 ELSE 1) + (IF state.shutdown_requested THEN 0 ELSE 1)

\* the content of a file after a document has been written at its start: a
\* longer document that was there keeps its tail
Written(old, state) ==
    IF old.complete /\ DocLen(state) < DocLen(old.state)
    THEN [exists |-> TRUE, complete |-> FALSE, state |-> old.state]
    ELSE [exists |-> TRUE, complete |-> TRUE, state |-> state]

\* the record of a call: the keys its argument names, their values (the
\* default for a key it does not name) and the stored state
CallOf(update) ==
    [valid |-> TRUE, named |-> DOMAIN update,
     update |-> Merged(DEFAULT_CONTROL_STATE, update),
     before |-> read_control_state, fresh |-> TRUE]

\* control_state.py lines 84-85 and 70-71: a call of update_control_state
\* reads the stored state and merges its argument into it
UpdateBegin(w, update) ==
    /\ ctl_io.w[w].pc = "idle"
    /\ ctl_io' = [ctl_io EXCEPT !.w[w] = [pc |-> "open",
                                          state |-> Merged(read_control_state, update),
                                          at |-> "gone", raised |-> FALSE,
                                          call |-> CallOf(update)]]
    /\ UNCHANGED <<now, staticVars, control_file, running, stop_call, workerVars,
                   calls, storeVars, loopVars, fileVars>>

\* lines 73-74: tmp_path.open("w") creates collector_control.tmp or empties
\* the file that is there, whoever else has it open
OpenTmp(w) ==
    /\ ctl_io.w[w].pc = "open"
    /\ ctl_io' = [ctl_io EXCEPT !.tmp = [exists |-> TRUE, complete |-> FALSE,
                                         state |-> DEFAULT_CONTROL_STATE],
                                !.w[w].pc = "dump", !.w[w].at = "tmp"]
    /\ UNCHANGED <<now, staticVars, control_file, running, stop_call, workerVars,
                   calls, storeVars, loopVars, fileVars>>

\* lines 75-76: json.dump and the end of the `with` block write the document
\* into the file the writer has opened, wherever that file is found by now
DumpAndClose(w) ==
    /\ ctl_io.w[w].pc = "dump"
    /\ ctl_io' = [ctl_io EXCEPT
                    !.tmp = IF ctl_io.w[w].at = "tmp"
                            THEN Written(@, ctl_io.w[w].state) ELSE @,
                    !.w[w].pc = "replace",
                    !.last.fresh = @ /\ ctl_io.w[w].at # "path"]
    /\ control_file' = IF ctl_io.w[w].at = "path"
                       THEN Written(control_file, ctl_io.w[w].state)
                       ELSE control_file
    /\ UNCHANGED <<now, staticVars, running, stop_call, workerVars, calls,
                   storeVars, loopVars, fileVars>>

\* where an open file is found after collector_control.tmp has been renamed
\* to collector_control.json
AfterReplace(at) == IF at = "tmp" THEN "path" ELSE "gone"

\* line 78: tmp_path.replace(path); FileNotFoundError when another writer
\* has renamed the temporary file away
ReplaceTmp(w) ==
    /\ ctl_io.w[w].pc = "replace"
    /\ IF ctl_io.tmp.exists
       THEN /\ control_file' = ctl_io.tmp
            /\ ctl_io' = [tmp |-> NoDocument,
                          w |-> [v \in Writers |->
                                   IF v = w THEN IdleWriter
                                   ELSE [ctl_io.w[v] EXCEPT !.at = AfterReplace(@)]],
                          last |-> ctl_io.w[w].call]
       ELSE /\ ctl_io' = [ctl_io EXCEPT !.w[w] = [IdleWriter EXCEPT !.raised = TRUE]]
            /\ UNCHANGED control_file
    /\ UNCHANGED <<now, staticVars, running, stop_call, workerVars, calls,
                   storeVars, loopVars, fileVars>>

(***************************************************************************)
(* SpecCtlWrite: the control file under its writers.  The calls of         *)
(* update_control_state of the writers interleave statement by statement.  *)
(***************************************************************************)
NextCtlWrite ==
    \/ \E w \in Writers : \E update \in Updates : UpdateBegin(w, update)
    \/ \E w \in Writers : OpenTmp(w)
    \/ \E w \in Writers : DumpAndClose(w)
    \/ \E w \in Writers : ReplaceTmp(w)

SpecCtlWrite == InitEngine /\ [][NextCtlWrite]_vars

(***************************************************************************)
(* SpecCtlSeq: the control file under calls of update_control_state that   *)
(* do not overlap: a call begins when no other call is under way.          *)
(***************************************************************************)
NoCall == \A w \in Writers : ctl_io.w[w].pc = "idle"

NextCtlSeq ==
    \/ \E w \in Writers : \E update \in Updates : NoCall /\ UpdateBegin(w, update)
    \/ \E w \in Writers : OpenTmp(w)
    \/ \E w \in Writers : DumpAndClose(w)
    \/ \E w \in Writers : ReplaceTmp(w)

SpecCtlSeq == InitEngine /\ [][NextCtlSeq]_vars

\* main.py lines 472, 496 (`while self.running`) and 528-532: the loops run on
\* the main thread, which the signal handler takes over while it is in stop()
LoopRuns == running /\ stop_call.pc = "idle"

\* main.py lines 504-506: stop() is called (from the signal handler, or once
\* more by a caller that cleans up) and clears the flag
stop ==
    /\ stop_call.pc \in {"idle", "returned"}
    /\ stop_call.calls < MaxStops
    /\ running' = FALSE
    /\ stop_call' = [stop_call EXCEPT
                       !.pc = "shutdown", !.calls = @ + 1,
                       !.inflight = IF stop_call.calls = 0
                                    THEN {u \in Units : upc[u] \in WorkerPcs \cup {"queued"}}
                                    ELSE @]
    /\ UNCHANGED <<now, staticVars,
                   ctlFileVars, workerVars, calls, storeVars, loopVars, fileVars>>

\* shutdown(wait=False) would return with work still in the pool
Drained_NoWait == TRUE

\* main.py line 507, executor.shutdown(wait=True): returns when every work
\* item handed to the pool has run to its end
Drained ==
    /\ \A u \in Units : upc[u] \notin WorkerPcs \cup {"queued"}
    /\ \A d \in Devices : pings[d].pc \notin PingPcs \cup {"queued"}

\* lines 507-510: the pool has shut down, the sweep over device_collectors
\* begins
executor_shutdown ==
    /\ stop_call.pc = "shutdown"
    /\ Drained
    /\ stop_call' = [stop_call EXCEPT
                       !.pc = "sweep", !.i = 1,
                       !.live = IF stop_call.calls = 1
                                THEN {d \in Devices : persistent /\ _connection[d] # 0}
                                ELSE @]
    /\ UNCHANGED <<now, staticVars,
                   ctlFileVars, running, workerVars, calls, storeVars, loopVars,
                   fileVars>>

\* a close that gives up the handle only when disconnect() succeeded
AfterClose_KeepOnError(conn, ok) == IF ok THEN 0 ELSE conn

\* lines 250-251, `finally: self._connection = None`
AfterClose(conn, ok) == 0

\* after close(): the position of stop() in its sweep
SweepNext(i) == IF i = Len(DeviceOrder) THEN "db" ELSE "sweep"

\* main.py lines 510-514 with DeviceCollector.close (lines 236-251):
\* disconnect() succeeds or raises (ok), the error is logged
close(d) ==
    /\ stop_call.pc = "sweep"
    /\ d = DeviceOrder[stop_call.i]
    /\ persistent => LockFree(d)
    /\ IF persistent /\ _connection[d] # 0
       THEN \E ok \in BOOLEAN :
              /\ _connection' = [_connection EXCEPT ![d] = AfterClose(@, ok)]
              /\ handles' = [handles EXCEPT
                               ![d] = IF ok THEN @ \ {_connection[d]} ELSE @]
              /\ stop_call' = [stop_call EXCEPT
                                 !.pc = SweepNext(stop_call.i), !.i = @ + 1,
                                 !.disconnects[d] = @ + 1,
                                 !.failed = IF ok THEN @ ELSE @ \cup {d}]
       ELSE /\ stop_call' = [stop_call EXCEPT
                               !.pc = SweepNext(stop_call.i), !.i = @ + 1]
            /\ UNCHANGED <<_connection, handles>>
    /\ UNCHANGED <<now, staticVars,
                   ctlFileVars, running, _connection_lock, connects, probe_failed,
                   upc, loc, calls, storeVars, loopVars, fileVars>>

\* main.py line 516: self.db.close(), and stop() returns
db_close ==
    /\ stop_call.pc = "db"
    /\ stop_call' = [stop_call EXCEPT !.pc = "returned", !.db_closed = TRUE]
    /\ UNCHANGED <<now, staticVars,
                   ctlFileVars, running, workerVars, calls, storeVars, loopVars,
                   fileVars>>

\* main.py line 532: sys.exit(0) in the signal handler ends both loops
sys_exit ==
    /\ stop_call.pc = "returned"
    /\ cl.pc # "exited"
    /\ cl' = [cl EXCEPT !.pc = "exited"]
    /\ pl' = [pl EXCEPT !.pc = "exited"]
    /\ UNCHANGED <<now, cfgVars, workerVars, calls, storeVars, command_next_run,
                   pings, fileVars>>

\* no publish is under way: in this specification a publish, once begun,
\* runs to its end before anything else moves
Quiet == pub.pc = "idle"

(***************************************************************************)
(* SpecCtl: the engine while the control surface rewrites the control      *)
(* file.  The first round of both lanes; the workers run one after the     *)
(* other.                                                                  *)
(***************************************************************************)
NextCtl ==
    \/ collect_commands
    \/ collect_pings
    \/ \E u \in Units : Quiet /\ OneWorker(u) /\ Start(u)
    \/ \E u \in Units : Quiet /\ OneWorker(u) /\ AcquireLock(u)
    \/ \E u \in Units : Quiet /\ OneWorker(u) /\ EnsureConnected(u)
    \/ \E u \in Units : Quiet /\ OneWorker(u) /\ SendCommand(u)
    \/ \E u \in Units : Quiet /\ OneWorker(u) /\ SelectDevice(u)
    \/ \E u \in Units : Quiet /\ OneWorker(u) /\ InsertDevice(u)
    \/ \E u \in Units : Quiet /\ OneWorker(u) /\ SelectCommand(u)
    \/ \E u \in Units : Quiet /\ OneWorker(u) /\ InsertCommand(u)
    \/ \E u \in Units : Quiet /\ OneWorker(u) /\ InsertRunRow(u)
    \/ \E u \in Units : Quiet /\ OneWorker(u) /\ CleanupRuns(u)
    \/ \E d \in Devices : Quiet /\ OnePing(d) /\ PingSelectDevice(d)
    \/ \E d \in Devices : Quiet /\ OnePing(d) /\ PingInsertDevice(d)
    \/ \E d \in Devices : Quiet /\ OnePing(d) /\ PingInsertSample(d)
    \/ GatherCommands
    \/ GatherPings
    \/ CopyBegin
    \/ CopyEnd
    \/ UnlinkCurrent
    \/ RenameTmp
    \/ \E update \in Updates : Quiet /\ update_control_state(update)

SpecCtl == InitEngine /\ [][NextCtl]_vars

(***************************************************************************)
(* SpecStop: the shutdown.  The first round of both lanes; the workers run *)
(* one after the other; stop() is called at any moment between two         *)
(* publishes, and may be called again after it has returned.               *)
(***************************************************************************)
NextStop ==
    \/ LoopRuns /\ collect_commands
    \/ LoopRuns /\ collect_pings
    \/ \E u \in Units : Quiet /\ OneWorker(u) /\ Start(u)
    \/ \E u \in Units : Quiet /\ OneWorker(u) /\ AcquireLock(u)
    \/ \E u \in Units : Quiet /\ OneWorker(u) /\ EnsureConnected(u)
    \/ \E u \in Units : Quiet /\ OneWorker(u) /\ SendCommand(u)
    \/ \E u \in Units : Quiet /\ OneWorker(u) /\ SelectDevice(u)
    \/ \E u \in Units : Quiet /\ OneWorker(u) /\ InsertDevice(u)
    \/ \E u \in Units : Quiet /\ OneWorker(u) /\ SelectCommand(u)
    \/ \E u \in Units : Quiet /\ OneWorker(u) /\ InsertCommand(u)
    \/ \E u \in Units : Quiet /\ OneWorker(u) /\ InsertRunRow(u)
    \/ \E u \in Units : Quiet /\ OneWorker(u) /\ CleanupRuns(u)
    \/ \E d \in Devices : Quiet /\ OnePing(d) /\ PingSelectDevice(d)
    \/ \E d \in Devices : Quiet /\ OnePing(d) /\ PingInsertDevice(d)
    \/ \E d \in Devices : Quiet /\ OnePing(d) /\ PingInsertSample(d)
    \/ LoopRuns /\ GatherCommands
    \/ LoopRuns /\ GatherPings
    \/ LoopRuns /\ CopyBegin
    \/ LoopRuns /\ CopyEnd
    \/ LoopRuns /\ UnlinkCurrent
    \/ LoopRuns /\ RenameTmp
    \/ Quiet /\ stop
    \/ executor_shutdown
    \/ \E d \in Devices : close(d)
    \/ db_close
    \/ sys_exit

SpecStop == InitEngine /\ [][NextStop]_vars

(***************************************************************************)
(* SpecClose: the shutdown sweep over the sessions.  execute_command is    *)
(* called for the first command on both devices, one unit at a time, until *)
(* stop() is called; stop() may be called again after it has returned.     *)
(***************************************************************************)
InitClose ==
    /\ now = 0
    /\ persistent \in BOOLEAN
    /\ max_reconnect_attempts = 1
    /\ output_exclusions = FALSE
    /\ InitWorkers
    /\ InitStore
    /\ InitLoops
    /\ InitFiles
    /\ InitControl

\* the units that are called: the first command, on every device
FirstCommand(u) == u[2] = CommandOrder[1]

NextClose ==
    \/ \E u \in Units : FirstCommand(u) /\ LoopRuns /\ Alone(u, SessionPcs) /\ Call(u)
    \/ \E u \in Units : Alone(u, SessionPcs) /\ AcquireLock(u)
    \/ \E u \in Units : Alone(u, SessionPcs) /\ EnsureConnected(u)
    \/ \E u \in Units : Alone(u, SessionPcs) /\ SendCommand(u)
    \/ \E u \in Units : Alone(u, SessionPcs) /\ LegacyConnect(u)
    \/ \E u \in Units : Alone(u, SessionPcs) /\ LegacySend(u)
    \/ \E u \in Units : Alone(u, SessionPcs) /\ SelectDevice(u)
    \/ \E u \in Units : Alone(u, SessionPcs) /\ InsertDevice(u)
    \/ \E u \in Units : Alone(u, SessionPcs) /\ SelectCommand(u)
    \/ \E u \in Units : Alone(u, SessionPcs) /\ InsertCommand(u)
    \/ \E u \in Units : Alone(u, SessionPcs) /\ InsertRunRow(u)
    \/ \E u \in Units : Alone(u, SessionPcs) /\ CleanupRuns(u)
    \/ \E u \in Units : Alone(u, SessionPcs) /\ Return(u)
    \/ stop
    \/ executor_shutdown
    \/ \E d \in Devices : close(d)
    \/ db_close

SpecClose == InitClose /\ [][NextClose]_vars

(***************************************************************************)
(* SpecLocks: the device locks.  execute_command is called on any unit by  *)
(* callers that run at the same time, before, while and after stop() runs  *)
(* its sweep over the sessions; persistent mode, where the locks are       *)
(* taken.  The steps on the sessions interleave freely; stop() is called   *)
(* once.                                                                   *)
(***************************************************************************)
InitLocks ==
    /\ now = 0
    /\ persistent = TRUE
    /\ max_reconnect_attempts = 1
    /\ output_exclusions = FALSE
    /\ InitWorkers
    /\ InitStore
    /\ InitLoops
    /\ InitFiles
    /\ InitControl

\* the units that are called: both commands on the first device, the first
\* command on the others
LockUnits == {u \in Units : u[1] = DeviceOrder[1] \/ u[2] = CommandOrder[1]}

\* no insert_run call is under way: in this specification an insert_run call,
\* once begun, runs to its end before anything else moves
NoInsert == \A u \in Units : upc[u] \notin StorePcs

NextLocks ==
    \/ \E u \in LockUnits : Alone(u, StorePcs) /\ Call(u)
    \/ \E u \in Units : Alone(u, StorePcs) /\ AcquireLock(u)
    \/ \E u \in Units : Alone(u, StorePcs) /\ EnsureConnected(u)
    \/ \E u \in Units : Alone(u, StorePcs) /\ SendCommand(u)
    \/ \E u \in Units : Alone(u, StorePcs) /\ SelectDevice(u)
    \/ \E u \in Units : Alone(u, StorePcs) /\ InsertDevice(u)
    \/ \E u \in Units : Alone(u, StorePcs) /\ SelectCommand(u)
    \/ \E u \in Units : Alone(u, StorePcs) /\ InsertCommand(u)
    \/ \E u \in Units : Alone(u, StorePcs) /\ InsertRunRow(u)
    \/ \E u \in Units : Alone(u, StorePcs) /\ CleanupRuns(u)
    \/ \E u \in Units : Alone(u, StorePcs) /\ Return(u)
    \/ NoInsert /\ stop_call.calls = 0 /\ stop
    \/ NoInsert /\ executor_shutdown
    \/ \E d \in Devices : NoInsert /\ close(d)
    \/ NoInsert /\ db_close

SpecLocks == InitLocks /\ [][NextLocks]_vars

(***************************************************************************)
(* SpecCron: the schedules.  The engine starts at one of StartTimes with   *)
(* some of the commands configured, each with a cron schedule, an interval *)
(* of its own or neither; the first round of the command lane, the clock   *)
(* advancing while the batch is in the pool.                               *)
(***************************************************************************)
StartTimes == 0..1
Schedules == {NoSchedule, 2, 100}
Intervals == {NoInterval, 3}

\* _resolve_commands (lines 374-392): the configured commands, in order
CommandLists == {SubSeq(CommandOrder, 1, n) : n \in 0..Len(CommandOrder)}

InitCron ==
    /\ now \in StartTimes
    /\ persistent = TRUE
    /\ max_reconnect_attempts = 1
    /\ output_exclusions = FALSE
    /\ commands \in CommandLists
    /\ command_schedules \in [Commands -> Schedules]
    /\ _interval_cache \in [Commands -> Intervals]
    /\ \A c \in Commands :
          /\ command_schedules[c] = NoSchedule \/ _interval_cache[c] = NoInterval
          /\ c \notin Range(commands) =>
                command_schedules[c] = NoSchedule /\ _interval_cache[c] = NoInterval
    /\ command_next_run = [c \in Commands |->
                             IF c \in Range(commands) THEN InitialNextRun(c, now) ELSE 0]
    /\ cl = [pc |-> "sleep", wake |-> 0, now |-> 0, futures |-> <<>>, due |-> {},
             pubs |-> 0, gathered |-> 0]
    /\ pl = [pc |-> "sleep", wake |-> 0]
    /\ pings = [d \in Devices |-> IdlePing]
    /\ InitWorkers
    /\ InitStore
    /\ InitFiles
    /\ control_file = NoDocument
    /\ ctl_io = IdleIo
    /\ running = TRUE
    /\ stop_call = IdleStop

\* the batch of the tick is in the pool and every unit of it is done
BatchReady == cl.pc = "gather" /\ BatchDone(cl.futures)

NextCron ==
    \/ BatchReady /\ Tick
    \/ collect_commands
    \/ \E u \in Units : OneWorker(u) /\ Start(u)
    \/ \E u \in Units : OneWorker(u) /\ AcquireLock(u)
    \/ \E u \in Units : OneWorker(u) /\ EnsureConnected(u)
    \/ \E u \in Units : OneWorker(u) /\ SendCommand(u)
    \/ \E u \in Units : OneWorker(u) /\ SelectDevice(u)
    \/ \E u \in Units : OneWorker(u) /\ InsertDevice(u)
    \/ \E u \in Units : OneWorker(u) /\ SelectCommand(u)
    \/ \E u \in Units : OneWorker(u) /\ InsertCommand(u)
    \/ \E u \in Units : OneWorker(u) /\ InsertRunRow(u)
    \/ \E u \in Units : OneWorker(u) /\ CleanupRuns(u)
    \/ GatherCommands
    \/ CopyBegin
    \/ CopyEnd
    \/ UnlinkCurrent
    \/ RenameTmp

SpecCron == InitCron /\ [][NextCron]_vars

(***************************************************************************)
(* SpecPrune: the command lane over more ticks than the retention count.   *)
(* One command is configured, with a cron schedule that fires every        *)
(* second; the engine was started in the second before the first tick.     *)
(***************************************************************************)
EverySecond == 1

InitPrune ==
    /\ now = 0
    /\ persistent = TRUE
    /\ max_reconnect_attempts = 1
    /\ output_exclusions = FALSE
    /\ commands = <<CommandOrder[1]>>
    /\ command_schedules = [c \in Commands |->
                              IF c = CommandOrder[1] THEN EverySecond ELSE NoSchedule]
    /\ _interval_cache = [c \in Commands |-> NoInterval]
    /\ command_next_run = [c \in Commands |-> 0]
    /\ cl = [pc |-> "sleep", wake |-> 0, now |-> 0, futures |-> <<>>, due |-> {},
             pubs |-> 0, gathered |-> 0]
    /\ pl = [pc |-> "sleep", wake |-> 0]
    /\ pings = [d \in Devices |-> IdlePing]
    /\ InitWorkers
    /\ InitStore
    /\ InitFiles
    /\ control_file = NoDocument
    /\ ctl_io = IdleIo
    /\ running = TRUE
    /\ stop_call = IdleStop

SpecPrune == InitPrune /\ [][NextSched]_vars

(***************************************************************************)
(* Properties                                                              *)
(***************************************************************************)
\* the unit is manipulating or using a session of its device
InSession(u) == upc[u] \in {"ensure", "send", "legacy_send"}

SameDevice(u, v) == u # v /\ Dev(u) = Dev(v)

ExpectedDelays(maxa) ==
    [i \in 1..(maxa - 1) |-> reconnect_backoff_base * Pow2(i - 1)]

RetriedThenConnectFailed(u) ==
    /\ loc[u].tries = max_reconnect_attempts
    /\ loc[u].delays = ExpectedDelays(max_reconnect_attempts)
    /\ loc[u].err = <<"ConnectFailed", loc[u].lastout>>
    /\ loc[u].lastout \in ErrKinds \/ max_reconnect_attempts = 0

C8_AbsentAfterConnectFailed ==
    [][\A u \in Units :
          (loc[u].result # "connect" /\ loc'[u].result = "connect")
              => /\ _connection'[Dev(u)] = 0
                 /\ _connection_lock'[Dev(u)] = NoUnit]_vars

C8_Witness ==
    \E u \in Units :
        /\ loc[u].result = "connect"
        /\ loc[u].stale
        /\ _connection[Dev(u)] = 0
        /\ _connection_lock[Dev(u)] = NoUnit

\* C9: in persistent mode, as long as no liveness probe of a device has
\* failed, at most one connection to it has been opened, and every command
\* is sent on that first connection.
C9_OneConnectWhileHealthy ==
    \A d \in Devices :
        (persistent /\ ~probe_failed[d]) =>
            /\ connects[d] <= 1
            /\ \A u \in Units :
                  (Dev(u) = d /\ upc[u] = "send") =>
                      connects[d] = 1 /\ _connection[d] = 1

C9_Witness ==
    /\ persistent
    /\ \E u \in Units :
          /\ upc[u] = "send"
          /\ loc[u].tries = 0
          /\ ~probe_failed[Dev(u)]
          /\ connects[Dev(u)] = 1

StrictlyIncreasing(s) == \A i \in 1..(Len(s) - 1) : s[i] < s[i + 1]

\* the last n elements of s, newest first
NewestFirst(s, n) == [i \in 1..n |-> s[Len(s) + 1 - i]]

IdOfDevice(name) == {r.id : r \in DeviceRow(name)}
IdOfCommand(text) == {r.id : r \in CommandRow(text)}

RowsOfPair(u) ==
    {r \in runs : r.device_id \in IdOfDevice(Dev(u))
                  /\ r.command_id \in IdOfCommand(Cmd(u))}

TsOf(s) == [i \in DOMAIN s |-> s[i].ts_epoch]

\* C3: once more than history_size runs with increasing timestamps have
\* been appended for a pair, exactly history_size of them remain, and
\* get_latest_runs returns the newest history_size timestamps, newest first.
C3_RetentionKeepsNewest ==
    \A u \in Units :
        (/\ \A v \in Units : upc[v] = "idle"
         /\ Len(appended[u]) > history_size
         /\ StrictlyIncreasing(appended[u]))
        => /\ Cardinality(RowsOfPair(u)) = history_size
           /\ LET res == get_latest_runs(devices_tbl, commands_tbl, runs,
                                         Dev(u), Cmd(u), history_size, TRUE)
              IN /\ res # {}
                 /\ \A s \in res :
                       TsOf(s) = NewestFirst(appended[u], history_size)

C3_Witness ==
    \E u \in Units :
        /\ \A v \in Units : upc[v] = "idle"
        /\ Len(appended[u]) = history_size + 1
        /\ StrictlyIncreasing(appended[u])
        /\ Cardinality(RowsOfPair(u)) = history_size

\* C4 as stated: in every state no pair holds more than history_size runs.
C4_NeverMoreThanN ==
    \A u \in Units : Cardinality(RowsOfPair(u)) <= history_size

\* C10 as stated: a finished unit has appended exactly one run and has not
\* raised; the run is ok exactly when the command succeeded, and a failed
\* run carries the error of the connect or command failure.
C10_OneRunPerUnit ==
    \A u \in Units :
        upc[u] = "done" =>
            /\ ~loc[u].raised
            /\ loc[u].nrec = 1
            /\ (loc[u].result = "ok") = (loc[u].phase = "try")
            /\ loc[u].phase = "except" =>
                  loc[u].err[1] \in {"ConnectFailed", "ConnectError", "ExecFailed"}

\* C1: in one tick every command due at the start of the tick is dispatched
\* exactly once for every configured device: the batch of the last
\* collect_commands call holds each (device, due command) once, D*C units
C1_EveryDueUnitDispatched ==
    /\ \A d \in Devices : \A c \in cl.due :
          Cardinality({i \in DOMAIN cl.futures : cl.futures[i] = <<d, c>>}) = 1
    /\ Len(cl.futures) = Cardinality(Devices) * Cardinality(cl.due)

\* every run row of the file refers to a device row and a command row of the
\* file, as it does in the live store at every instant
Intact(f) ==
    \A r \in f.runs : /\ \E d \in f.devices : d.id = r.device_id
                      /\ \E c \in f.commands : c.id = r.command_id

\* C5: whenever the public snapshot path exists its content is a complete
\* copy of the live store as it was at one single instant, never a partially
\* written file or a mixture of two instants
C5_SnapshotOfOneInstant ==
    current_file.exists => current_file.complete /\ Intact(current_file)

\* C6: once a snapshot has been published the public path exists in every
\* later state, at every step of a later publish and after a failed one
C6_PublicPathStaysPresent == published => current_file.exists

\* C11: a command batch that dispatched at least one unit invokes the
\* publisher exactly once, and only after every unit of the batch has
\* finished; a tick that dispatched nothing does not invoke it
C11_OnePublishPerBatch ==
    /\ cl.pubs <= 1
    /\ cl.futures = <<>> => cl.pubs = 0
    /\ cl.pc = "gather" => cl.pubs = 0
    /\ cl.pc \in {"publish", "sleep"} /\ cl.futures # <<>> => cl.pubs = 1
    /\ cl.pc = "publish" <=> pub.pc # "idle" /\ pub.lane = "cmd"
    /\ cl.pc = "publish" => \A u \in Range(cl.futures) : upc[u] = "idle"

\* a second batch has been published, after its units have run
C11_Witness ==
    /\ cl.pc = "sleep"
    /\ cl.now > 0
    /\ cl.futures # <<>>
    /\ cl.pubs = 1
    /\ \A u \in Range(cl.futures) : Len(appended[u]) >= 2

\* C12: the next run time of a command is recomputed after the command has
\* run, from the wall clock at the moment its batch completed and not from
\* the time the tick started
C12_NextRunFromCompletion ==
    cl.pc \in {"publish", "sleep"} =>
        \A u \in Range(cl.futures) :
            command_next_run[Cmd(u)] = NextSlot(Cmd(u), cl.gathered)

OthersWaiting(d) ==
    \/ \E u \in Units : Dev(u) # d /\ upc[u] = "queued"
    \/ \E e \in Devices : pings[e].pc = "queued"

\* every thread of the pool is taken by a unit of device d: by the one that
\* holds the mutex of d (inside a session that may hang, or in a reconnect
\* back-off) or by one that waits for that mutex
PoolHeldBy(d) ==
    /\ ~PoolFree
    /\ \E h \in Units :
          /\ Dev(h) = d
          /\ _connection_lock[d] # NoUnit
          /\ _connection_lock[d] = h
          /\ \A w \in Running :
                /\ w[1] = "unit"
                /\ Dev(w[2]) = d
                /\ w[2] = h \/ upc[w[2]] = "lock"

\* C14: one slow or unreachable device does not stall unrelated work: while
\* the units of one device block on its session or its mutex, the units of
\* the other devices and the reachability probes still get a worker
C14_NoStallByOneDevice ==
    \A d \in Devices : ~(PoolHeldBy(d) /\ OthersWaiting(d))

\* the unit is inside execute_command
Executing(u) == upc[u] \in (SessionPcs \cup StorePcs) \ {"done"}

\* C15: every execute call eventually returns (with a success or a failure)
\* also when the device never answers, in persistent and in non-persistent
\* mode
C15_EveryExecuteReturns ==
    \A u \in Units : Executing(u) ~> upc[u] = "done"


\* the command loop hands a batch to the pool in this step
Dispatches == cl.pc = "sleep" /\ cl'.pc = "gather"

\* C16: a tick of the command loop that finds commands_paused = true in the
\* control file hands no command unit to the pool (probing goes on and the
\* engine keeps running).
C16_PausedDispatchesNothing ==
    [][read_control_state.commands_paused => ~Dispatches]_vars

\* the command loop wakes up and runs its tick in this step
Ticks == cl.pc = "sleep" /\ cl' # cl

\* C17: once the control file holds shutdown_requested = true, the engine
\* observes it at its next tick and begins the shutdown: that tick hands no
\* batch to the pool and leaves the running flag cleared.
C17_ShutdownRequestStopsDispatch ==
    [][(read_control_state.shutdown_requested /\ Ticks) => (~Dispatches /\ ~running')]_vars


\* stop() has gone past executor.shutdown
PastShutdown == stop_call.pc \in {"sweep", "db", "returned"}

\* C18: on stop(), the units in the pool run to their end before any session
\* or the store is closed (none is cut short), the loops take no further step
\* except to exit, so no batch is started once the flag is cleared, and once
\* stop() has returned running is false and the store is closed.
C18_GracefulStop ==
    /\ [](PastShutdown => /\ ~running
                          /\ \A u \in Units : upc[u] \notin WorkerPcs \cup {"queued"}
                          /\ \A d \in Devices : pings[d].pc \notin PingPcs \cup {"queued"}
                          /\ \A u \in stop_call.inflight : upc[u] = "done")
    /\ [](stop_call.db_closed => \A d \in Devices : _connection[d] = 0)
    /\ [](stop_call.pc = "returned" => stop_call.db_closed)
    /\ [][~running => /\ cl' = cl \/ cl'.pc = "exited"
                      /\ pl' = pl \/ pl'.pc = "exited"]_vars

\* stop() was called with units in the pool, they have all finished, the
\* session of their device has been closed and both loops have exited
C18_Witness ==
    /\ stop_call.pc = "returned"
    /\ stop_call.inflight # {}
    /\ \A u \in stop_call.inflight : upc[u] = "done" /\ Len(appended[u]) >= 1
    /\ \E d \in Devices : stop_call.disconnects[d] = 1
    /\ cl.pc = "exited"
    /\ pl.pc = "exited"


\* the sweep of stop() is over
SweepDone == stop_call.pc \in {"db", "returned"}

\* C19: the sweep calls disconnect() once on every session that is live when
\* it begins and on no other; a disconnect() that raises stops neither the
\* sweep nor stop(); after the sweep no device has a session, the device
\* whose close failed included; a second stop() disconnects nothing.
C19_SweepClosesEachOnce ==
    /\ \A d \in Devices : stop_call.disconnects[d] <= 1
    /\ SweepDone =>
         \A d \in Devices :
            /\ _connection[d] = 0
            /\ stop_call.disconnects[d] = IF d \in stop_call.live THEN 1 ELSE 0

\* stop() has returned twice; in the first sweep the close of d1 failed and
\* the session of d2 was closed after it
C19_Witness ==
    /\ stop_call.pc = "returned"
    /\ stop_call.calls = 2
    /\ stop_call.live = Devices
    /\ "d1" \in stop_call.failed
    /\ stop_call.disconnects["d2"] = 1
    /\ \A d \in Devices : _connection[d] = 0


\* _update_current_db returns in this step without having renamed the
\* temporary file: its last attempt has raised
GaveUp ==
    /\ pub.pc # "idle"
    /\ pub'.pc = "idle"
    /\ ~(pub.pc = "rename" /\ ~tmp_file'.exists)

\* the lane that called the publisher goes on to the sleep of its loop
LaneGoesOn == IF pub.lane = "cmd" THEN cl'.pc = "sleep" ELSE pl'.pc = "sleep"

\* C20 as stated: a publish that keeps failing gives up after five retries,
\* having waited 1, 2, 4, 5 and 5 seconds, and the cycle is skipped without
\* raising to the control loop.
C20_FiveWaits ==
    [][GaveUp => (pub.slept = <<1, 2, 4, 5, 5>> /\ LaneGoesOn)]_vars

\* C20 amended: a publish that keeps failing gives up after five attempts,
\* that is four retries, having waited 1, 2, 4 and 5 seconds, and the cycle
\* is skipped without raising to the control loop.
C20_FourWaits ==
    [][GaveUp => /\ pub.attempt = PublishAttempts - 1
                 /\ pub.slept = <<1, 2, 4, 5>>
                 /\ LaneGoesOn]_vars

\* the fifth attempt is under way after four failures and four waits
C20_Witness ==
    /\ pub.pc = "rename"
    /\ pub.attempt = PublishAttempts - 1
    /\ pub.slept = <<1, 2, 4, 5>>


\* what the connect loop of the persistent mode makes of a device that
\* refuses every attempt with the exception e
AllRefused(e) ==
    ConnectLoop(0, max_reconnect_attempts,
                [i \in 1..max_reconnect_attempts |-> e], None, <<>>)

\* C21: the non-persistent mode behaves like the persistent mode on the same
\* connect and command outcomes: a unit that uses a connection holds the
\* mutex of its device, and a unit whose device refuses the connection has
\* made the attempts, waited the back-off delays and recorded the error of
\* the persistent connect loop.
C21_LegacyLikePersistent ==
    \A u \in Units :
        ~persistent =>
            /\ upc[u] = "legacy_send" => _connection_lock[Dev(u)] = u
            /\ (loc[u].result = "connect" /\ max_reconnect_attempts > 0) =>
                   /\ loc[u].tries = AllRefused(loc[u].last_exception).tries
                   /\ loc[u].delays = AllRefused(loc[u].last_exception).delays
                   /\ loc[u].err = <<"ConnectFailed", loc[u].last_exception>>


\* the connections that executes of the non-persistent mode are using on d
InUse(d) == {loc[u].hnd : u \in {v \in Units : Dev(v) = d /\ upc[v] = "legacy_send"}}

\* C22: in the non-persistent mode an execute closes the connection it has
\* opened before it returns, whether the command succeeds or fails: the only
\* connections open on a device are those of executes that are between their
\* connect and the end of their command.
C22_LegacyClosesWhatItOpens ==
    ~persistent => \A d \in Devices : handles[d] \subseteq InUse(d)


\* the engine has been constructed and its command loop has not run a tick:
\* the clock still shows the start-up time
Startup == cl.pc = "sleep" /\ cl.wake = 0

\* C23: at start-up the next run time of a command without a cron schedule
\* is the start-up time, so it is due at the first tick, and that of a
\* cron-scheduled command is strictly later, so it is not due at a tick that
\* runs at the start-up time.
C23_FirstRunTimes ==
    Startup =>
        \A c \in Range(commands) :
            IF command_schedules[c] = NoSchedule
            THEN command_next_run[c] = now /\ IsDue(now, command_next_run[c])
            ELSE command_next_run[c] > now /\ ~IsDue(now, command_next_run[c])

\* started at time 1 with one command of each kind: the first is due, the
\* cron-scheduled one waits for its first occurrence
C23_Witness ==
    /\ Startup
    /\ now = 1
    /\ commands = CommandOrder
    /\ command_schedules["c1"] = NoSchedule
    /\ command_schedules["c2"] = 2
    /\ command_next_run = [c \in Commands |-> IF c = "c1" THEN 1 ELSE 2]


\* Config.get_command_interval (config.py lines 226-256): the interval of
\* the command's own, or the global one when it has none
IntervalOf(c) ==
    IF _interval_cache[c] # NoInterval THEN _interval_cache[c] ELSE interval_seconds

\* the commands of the batch handed to the pool in this step
Dispatched == {u[2] : u \in Range(cl'.futures)}

\* C24: a command run at a tick is rescheduled by its own rule: to the next
\* occurrence of its cron schedule when it has one, to the tick's time plus
\* its own interval when it has one, and to the tick's time plus the global
\* interval only when it has neither.
C24_RescheduledByOwnRule ==
    [][Dispatches =>
         \A c \in Dispatched :
            command_next_run'[c] =
                IF command_schedules[c] # NoSchedule
                THEN CronNext(command_schedules[c], now)
                ELSE now + IntervalOf(c)]_vars


\* the command loop goes to its sleep in this step (line 492)
GoesToSleep == cl'.pc = "sleep" /\ cl' # cl

\* the earliest next run time over the configured commands, after the tick
Earliest == SetMin({command_next_run'[c] : c \in Range(commands)})

\* C25: after a tick the command loop sleeps between 1 and 60 seconds, until
\* the earliest next run time when that lies within the band: it wakes no
\* later than that time or one second from now, whichever is later, and no
\* earlier than that time unless the 60 seconds cap applies; with no command
\* configured it sleeps the global interval.
C25_SleepWithinBand ==
    [][GoesToSleep =>
         IF commands = <<>>
         THEN cl'.wake = now + interval_seconds
         ELSE /\ cl'.wake >= now + 1
              /\ cl'.wake <= now + 60
              /\ cl'.wake <= Max2(Earliest, now + 1)
              /\ cl'.wake < now + 60 => cl'.wake >= Earliest]_vars

\* a command is overdue when the loop goes to sleep after its batch: the
\* loop sleeps the floor of one second
C25_Witness ==
    /\ cl.pc = "sleep"
    /\ cl.gathered > 0
    /\ cl.wake = now + 1
    /\ \E c \in Range(commands) : command_next_run[c] <= now


\* C26: a reader of the control file finds the whole state as it was before
\* or after a write, whatever the writers are doing: once the file exists it
\* holds a whole document at every instant, so that read_control_state never
\* falls back to the default state because of a write in progress.
C26_ReaderSeesWholeDocument ==
    control_file.exists => control_file.complete


\* the flag k of a control state
Flag(state, k) ==
    IF k = "commands_paused" THEN state.commands_paused ELSE state.shutdown_requested

\* C27: after a call update_control_state(u) has returned, and as long as
\* nothing has written to the control file since, read_control_state returns
\* for every flag named in u the value given in u and for every other flag
\* the value that was stored when the call began.
C27_UpdateChangesNamedFlagsOnly ==
    (ctl_io.last.valid /\ ctl_io.last.fresh) =>
        \A k \in ControlKeys :
            Flag(read_control_state, k) =
                IF k \in ctl_io.last.named
                THEN Flag(ctl_io.last.update, k)
                ELSE Flag(ctl_io.last.before, k)


\* the values of the limit argument of a read
Limits == (0 - 1)..(history_size + 1)

\* the rows a LIMIT of limit lets through out of n
Limited(limit, n) == IF limit < 0 THEN n ELSE Min2(limit, n)

\* C28: for every content of the store, every pair and every limit,
\* get_latest_runs without include_filtered returns no run marked filtered
\* (and nothing at all for a pair whose runs are all filtered), and with
\* include_filtered it returns the newest runs of the pair whether they are
\* marked filtered or not.
C28_FilteredHiddenByDefault ==
    \A u \in Units : \A limit \in Limits :
        LET plain == get_latest_runs(devices_tbl, commands_tbl, runs,
                                     Dev(u), Cmd(u), limit, FALSE)
            every == get_latest_runs(devices_tbl, commands_tbl, runs,
                                     Dev(u), Cmd(u), limit, TRUE)
        IN /\ plain # {}
           /\ \A s \in plain : \A i \in DOMAIN s : ~s[i].is_filtered
           /\ (\A r \in RowsOfPair(u) : r.is_filtered) => plain = {<<>>}
           /\ every # {}
           /\ \A s \in every :
                 /\ Len(s) = Limited(limit, Cardinality(RowsOfPair(u)))
                 /\ Range(s) \in TopByTs(RowsOfPair(u), Len(s))

\* a pair holds a filtered run that is newer than its unfiltered run: the
\* read with limit 1 returns the one or the other, by the flag; another pair
\* holds filtered runs only
C28_Witness ==
    /\ \A v \in Units : upc[v] = "idle"
    /\ \E u \in Units :
          /\ \E r \in RowsOfPair(u) : ~r.is_filtered
          /\ \E s \in get_latest_runs(devices_tbl, commands_tbl, runs,
                                      Dev(u), Cmd(u), 1, TRUE) : s[1].is_filtered
          /\ \E s \in get_latest_runs(devices_tbl, commands_tbl, runs,
                                      Dev(u), Cmd(u), 1, FALSE) : ~s[1].is_filtered
    /\ \E u \in Units :
          /\ RowsOfPair(u) # {}
          /\ \A r \in RowsOfPair(u) : r.is_filtered


\* the step in which send_command raises on the stored session of u's device
ExecFails(u) ==
    /\ persistent
    /\ upc[u] = "send"
    /\ loc'[u].result = "exec"

\* u takes a step of the handler that follows a failed command
HandlerStep(u) ==
    /\ persistent
    /\ loc[u].result = "exec"
    /\ upc'[u] # upc[u]

\* C29: in persistent mode, when send_command raises on the stored session
\* the exception is handled as ExecFailed, the device's lock is free and the
\* stored handle is neither closed nor cleared, by that step and by the
\* handler; the handler ends having recorded one failed run and without
\* raising; and an execute that finds a stored handle whose probe succeeds
\* (on a device no probe of which has failed) sends on that handle without
\* a connect.
C29_ExecFailedKeepsSession ==
    [][\A u \in Units :
          LET d == Dev(u)
          IN /\ ExecFails(u) =>
                   /\ loc'[u].phase = "except"
                   /\ loc'[u].err[1] = "ExecFailed"
                   /\ _connection_lock'[d] = NoUnit
                   /\ _connection'[d] = _connection[d]
                   /\ handles'[d] = handles[d]
             /\ HandlerStep(u) =>
                   /\ _connection_lock'[d] # u
                   /\ _connection'[d] = _connection[d]
                   /\ handles'[d] = handles[d]
                   /\ upc'[u] = "done" => (~loc'[u].raised /\ loc'[u].nrec = 1)
             /\ (/\ persistent
                 /\ upc[u] = "ensure" /\ upc'[u] # "ensure"
                 /\ _connection[d] # 0
                 /\ ~probe_failed'[d]) =>
                   /\ upc'[u] = "send"
                   /\ _connection'[d] = _connection[d]
                   /\ connects'[d] = connects[d]]_vars


\* the locks a unit holds
Held(u) == {d \in Devices : _connection_lock[d] = u}

\* the device whose session stop() is about to close
SweepAt == DeviceOrder[stop_call.i]

\* C30: a unit holds at most one device lock, that of its own device, and
\* only between taking it and the end of its send; a unit that holds a lock
\* waits for nothing (its next step can be taken whatever the other devices'
\* locks and sessions are); a unit that waits for its lock, and the sweep of
\* stop() that waits for the lock of the session it is about to close, wait
\* for nothing but that one lock and hold none.  So every wait is for a lock
\* whose holder can go on: there is no deadlock on the device locks.
C30_NoDeadlockOnLocks ==
    /\ \A u \in Units :
          /\ Cardinality(Held(u)) <= 1
          /\ Held(u) \subseteq {Dev(u)}
          /\ Held(u) # {} =>
                /\ upc[u] \in {"ensure", "send"}
                /\ ENABLED (EnsureConnected(u) \/ SendCommand(u))
          /\ upc[u] = "lock" =>
                /\ Held(u) = {}
                /\ LockFree(Dev(u)) => ENABLED AcquireLock(u)
    /\ (stop_call.pc = "sweep" /\ LockFree(SweepAt)) => ENABLED close(SweepAt)

\* the units of the two devices hold their locks at the same time, while
\* the sweep of stop() waits for the lock of the first of them
C30_Witness ==
    /\ stop_call.pc = "sweep"
    /\ \E u \in Units : \E v \in Units :
          /\ Dev(u) # Dev(v)
          /\ Held(u) = {Dev(u)}
          /\ Held(v) = {Dev(v)}
          /\ SweepAt = Dev(u)


\* the lane is inside _update_current_db: copying, unlinking, renaming or in
\* the sleep between two attempts
Publishing(lane) == pub.pc # "idle" /\ pub.lane = lane

\* the ping lane has something to do: its sleep is over, or its batch is done
PingLaneReady ==
    \/ pl.pc = "sleep" /\ now >= pl.wake
    \/ pl.pc = "gather" /\ \A d \in Devices : pings[d].pc = "done"

\* the command lane has something to do
CommandLaneReady ==
    \/ cl.pc = "sleep" /\ now >= cl.wake
    \/ cl.pc = "gather" /\ BatchDone(cl.futures)

\* C31: while one lane is inside a publish the other lane can take its next
\* step as soon as it has one to take (wake from its sleep and dispatch, or
\* go on after its batch).
C31_LanesIndependent ==
    /\ (Publishing("cmd") /\ PingLaneReady) => ENABLED (collect_pings \/ GatherPings)
    /\ (Publishing("ping") /\ CommandLaneReady) =>
          ENABLED (collect_commands \/ GatherCommands)


\* the unit u ends its _cleanup_old_runs in this step
Cleans(u) == upc[u] = "cleanup" /\ upc'[u] # "cleanup"

\* C32: a run leaves the store only in the retention delete that ends an
\* insert_run, and it is then a run of the pair of that call; no step removes
\* a ping sample, a device row or a command row; a step of
\* insert_ping_sample removes nothing.
C32_AppendTouchesOwnPairOnly ==
    [][/\ \A r \in runs \ runs' : \E u \in Units : Cleans(u) /\ r \in RowsOfPair(u)
       /\ \A d \in Devices : ping_samples'[d] >= ping_samples[d]
       /\ devices_tbl \subseteq devices_tbl'
       /\ commands_tbl \subseteq commands_tbl'
       /\ (pings' # pings) => runs \subseteq runs']_vars

\* the retention delete of an insert_run has removed a run of its pair while
\* the other pair holds a run and a ping sample is stored
C32_Witness ==
    \E u \in Units : \E v \in Units \ {u} :
        /\ upc[u] = "done"
        /\ Len(appended[u]) > history_size
        /\ Cardinality(RowsOfPair(u)) = history_size
        /\ RowsOfPair(v) # {}
        /\ \E d \in Devices : ping_samples[d] > 0


\* the handle u is about to send on is open, and it passed the probe in this
\* call of execute_command or was connected in it
SendsOnGoodHandle(u) ==
    LET d == Dev(u)
    IN /\ _connection_lock[d] = u
       /\ _connection[d] \in handles[d]
       /\ \/ loc[u].probed /\ loc[u].tries = 0 /\ ~loc[u].stale
          \/ ~loc[u].probed /\ loc[u].tries >= 1 /\ _connection[d] = connects[d]

C34_NextRunMonotone ==
    [][/\ \A c \in Commands : command_next_run'[c] >= command_next_run[c]
       /\ Dispatches =>
             /\ \A c \in Dispatched : command_next_run'[c] > now
             /\ IsInjective(cl'.futures)]_vars

\* a second batch has been handed to the pool, at a later tick, and the
\* command is scheduled after it
C34_Witness ==
    /\ cl.pc = "gather"
    /\ cl.now >= interval_seconds
    /\ \E u \in Range(cl.futures) :
          /\ Len(appended[u]) >= 1
          /\ command_next_run[Cmd(u)] = cl.now + interval_seconds


\* the run that the unit u has appended in its current insert_run call
JustAppended(u) == {r \in RowsOfPair(u) : r.id = run_seq}

\* C35: a unit is handed to the pool only when no unit of its (device,
\* command) pair is in flight; the timestamps of the runs appended for a
\* pair never decrease; and the retention delete that ends an insert_run
\* leaves the run that this insert_run has just appended in the store.
C35_OneInFlightPerPair ==
    [][/\ Dispatches => \A u \in Range(cl'.futures) : upc[u] = "idle"
       /\ \A u \in Units :
             /\ \A i \in 1..(Len(appended'[u]) - 1) :
                   appended'[u][i] <= appended'[u][i + 1]
             /\ Cleans(u) => (JustAppended(u) # {} /\ JustAppended(u) \subseteq runs')]_vars

\* the pair has had more runs than the retention count, and the retention
\* delete has just left the newest ones
C35_Witness ==
    \E u \in Units :
        /\ upc[u] = "done"
        /\ Len(appended[u]) = history_size + 1
        /\ Cardinality(RowsOfPair(u)) = history_size
        /\ JustAppended(u) # {}


\* the stored handle of d or the set of its open sessions changes in this step
SessionTouched(d) == _connection'[d] # _connection[d] \/ handles'[d] # handles[d]

\* the unit u, holder of the lock of its device, ends its _ensure_connected
EnsuresUnderLock(u) ==
    /\ _connection_lock[Dev(u)] = u
    /\ upc[u] = "ensure" /\ upc'[u] # "ensure"

\* close(d) runs in this step, the lock of d being free for it to take
ClosesUnderLock(d) ==
    /\ _connection_lock[d] = NoUnit
    /\ stop_call.pc = "sweep" /\ SweepAt = d
    /\ stop_call'.i = stop_call.i + 1

\* C36: in persistent mode the stored handle and the sessions of a device
\* change only in a step of the holder of the device's lock: the
\* _ensure_connected of the unit that holds it, or close() when it is free
\* to take; while a unit is about to send, the handle it sends on stays
\* stored and open, close() or not.
C36_SessionUnderLock ==
    [][\A d \in Devices :
          /\ SessionTouched(d) =>
                \/ \E u \in Units : Dev(u) = d /\ EnsuresUnderLock(u)
                \/ ClosesUnderLock(d)
          /\ \A u \in Units :
                (Dev(u) = d /\ upc[u] = "send") =>
                   /\ _connection[d] \in handles[d]
                   /\ ~ClosesUnderLock(d)
                   /\ upc'[u] = "send" => (/\ _connection'[d] = _connection[d]
                                           /\ _connection[d] \in handles'[d])]_vars

\* a unit is about to send on the session that the sweep of stop() has come
\* to close; the sweep waits
C36_Witness ==
    /\ stop_call.pc = "sweep"
    /\ \E u \in Units :
          /\ Dev(u) = SweepAt
          /\ upc[u] = "send"
          /\ _connection_lock[SweepAt] = u
          /\ _connection[SweepAt] \in handles[SweepAt]
          /\ ~ENABLED close(SweepAt)


\* the control file holds a whole document with shutdown_requested = true
StopStored ==
    /\ control_file.exists /\ control_file.complete
    /\ control_file.state.shutdown_requested

\* the writer w takes a step of a call whose argument names the key k
StepOfCallNaming(w, k) ==
    /\ ctl_io'.w[w].pc # ctl_io.w[w].pc
    /\ k \in ctl_io.w[w].call.named

\* C37: once the control file holds shutdown_requested = true, it holds a
\* document with shutdown_requested = false again only by a call of
\* update_control_state whose argument names shutdown_requested; the calls
\* that name commands_paused alone never take the stop request back,
\* however they interleave.
C37_StopRequestNeverLost ==
    [][(/\ StopStored
        /\ control_file'.exists /\ control_file'.complete
        /\ ~control_file'.state.shutdown_requested) =>
           \E w \in Writers : StepOfCallNaming(w, "shutdown_requested")]_vars


\* the INSERT the unit u is about to run is accepted by the UNIQUE constraint
InsertAccepted(u) ==
    /\ upc[u] = "ins_dev" => ~UniqueViolation(DeviceRow(Dev(u)))
    /\ upc[u] = "ins_cmd" => ~UniqueViolation(CommandRow(Cmd(u)))

\* C38: with several workers appending at the same time, the INSERT of every
\* get-or-create is accepted and no unit carries an IntegrityError, every
\* device name and command text has one id, and a finished unit whose
\* command succeeded has its run recorded by the try block (ok = true).
C38_ConcurrentAppendsSafe ==
    /\ \A u \in Units :
          /\ InsertAccepted(u)
          /\ loc[u].err[1] # "IntegrityError"
          /\ (upc[u] = "done" /\ loc[u].result = "ok") =>
                (loc[u].phase = "try" /\ ~loc[u].raised)
    /\ \A r1, r2 \in devices_tbl : r1.name = r2.name => r1.id = r2.id
    /\ \A r1, r2 \in commands_tbl : r1.text = r2.text => r1.id = r2.id


\* a result of get_latest_runs after removing the records marked filtered
Unfiltered(s) == SelectSeq(s, LAMBDA r : ~r.is_filtered)

\* the limits from the retention count upwards
LimitsFromN == history_size..(history_size + 1)

\* C39: for every content of the store, every pair and every limit of at
\* least history_size, the results of get_latest_runs without
\* include_filtered are the results with include_filtered after removing the
\* filtered records.
C39_FilteredOccupySlots ==
    \A u \in Units : \A limit \in LimitsFromN :
        LET plain == get_latest_runs(devices_tbl, commands_tbl, runs,
                                     Dev(u), Cmd(u), limit, FALSE)
            every == get_latest_runs(devices_tbl, commands_tbl, runs,
                                     Dev(u), Cmd(u), limit, TRUE)
        IN plain = {Unfiltered(s) : s \in every}


\* a publish is entered in this step
PublishStarts == pub'.pc = "copy" /\ pub'.attempt = 0 /\ pub' # pub

\* the temporary file is renamed in this step
TmpRenamed == tmp_file.exists /\ ~tmp_file'.exists

\* C40: at most one publish is under way at any time: a lane is inside
\* _update_current_db exactly when the publish under way is its own, a
\* publish is entered only when none is under way, the temporary file is
\* written and renamed only by steps of the publish under way, and the file
\* a publish renames is the whole copy that this publish has made.
C40_PublishesNeverOverlap ==
    [][/\ (cl.pc = "publish") = Publishing("cmd")
       /\ (pl.pc = "publish") = Publishing("ping")
       /\ PublishStarts => pub.pc = "idle"
       /\ tmp_file' # tmp_file =>
             /\ pub.pc # "idle"
             /\ pub'.pc = "idle" \/ pub'.lane = pub.lane
       /\ TmpRenamed =>
             /\ pub.pc = "rename"
             /\ tmp_file.complete
             /\ current_file' = tmp_file]_vars

\* a publish of the command lane is writing the temporary file while the
\* batch of the ping lane is done: the ping lane is kept out of the publisher
\* until the publish under way has ended
C40_Witness ==
    /\ Publishing("cmd") /\ pub.pc = "copy_rest"
    /\ tmp_file.exists /\ ~tmp_file.complete
    /\ pl.pc = "gather" /\ \A d \in Devices : pings[d].pc = "done"
    /\ ~ENABLED GatherPings

=============================================================================
